---- MODULE Spec2Model ----
(***************************************************************************)
(* GitHub MCP server: the consolidated gh_manage_* / gh_search commands,   *)
(* the token resolver, the GitHubClient gateway and its error classifier.  *)
(*                                                                         *)
(* A command execution is modelled at the granularity of the JavaScript    *)
(* event loop: one action per run-to-completion segment between awaits.    *)
(*                                                                         *)
(* Text produced by template strings is a sequence of its parts, so        *)
(* "starts with" is Head and "contains" is membership of a part.           *)
(***************************************************************************)
EXTENDS Integers, Sequences, FiniteSets, TLC

\* JavaScript undefined (absent optional value)
Undefined == "undefined"

\* ------------------------------------------------------------------------
\* Bounds
\* ------------------------------------------------------------------------
\* at most this many fields of one request carry a falsy ("" / 0 / null) or
\* an ill-typed value; all other fields are either absent or truthy
MaxOdd == 1

\* ------------------------------------------------------------------------
\* Tools and their operation enums
\* ------------------------------------------------------------------------
ManageTools ==
    {"gh_manage_repos", "gh_manage_issues", "gh_manage_pulls",
     "gh_manage_branches", "gh_manage_releases", "gh_manage_actions"}

allTools == ManageTools \cup {"gh_search"}

RepoOperations ==
    {"create", "delete", "update", "fork", "get", "list", "transfer"}

IssueOperations ==
    {"create", "update", "close", "assign", "label", "comment", "search",
     "list", "get"}

PullOperations ==
    {"create", "update", "merge", "review", "approve", "request_changes",
     "list", "get", "close"}

BranchOperations ==
    {"create", "delete", "get", "list", "protect", "get_protection",
     "update_protection"}

ReleaseOperations ==
    {"create", "get", "update", "delete", "publish", "get_latest", "list"}

ActionsOperations ==
    {"list_workflows", "get_workflow", "trigger_workflow", "list_runs",
     "get_run", "cancel_run", "rerun_workflow", "list_artifacts",
     "get_artifact", "download_artifact", "list_secrets"}

SearchOperations ==
    {"repositories", "issues", "pull_requests", "users", "code", "commits",
     "topics"}

OperationsOf(tool) ==
    CASE tool = "gh_manage_repos"    -> RepoOperations
      [] tool = "gh_manage_issues"   -> IssueOperations
      [] tool = "gh_manage_pulls"    -> PullOperations
      [] tool = "gh_manage_branches" -> BranchOperations
      [] tool = "gh_manage_releases" -> ReleaseOperations
      [] tool = "gh_manage_actions"  -> ActionsOperations
      [] tool = "gh_search"          -> SearchOperations

\* an operation tag that is in no enum
InvalidOperation == "invalid_operation"

\* ------------------------------------------------------------------------
\* Schemas: the fields the predicates and dispatchers read, with their zod
\* type.  kind "string" / "number" / "string_or_number" accept a falsy
\* value ("" or 0); kind "enum" / "object" / "positive" (a number with
\* .min(1)) do not ("" / null / 0 is rejected).
\* ------------------------------------------------------------------------
ManageReposSchema ==
    [owner |-> "string", repo |-> "string", name |-> "string",
     new_owner |-> "string", per_page |-> "positive", page |-> "positive"]

ManageIssuesSchema ==
    [owner |-> "string", repo |-> "string", issue_number |-> "number",
     title |-> "string", comment_body |-> "string", q |-> "string"]

ManagePullsSchema ==
    [owner |-> "string", repo |-> "string", pull_number |-> "number",
     title |-> "string", head |-> "string", base |-> "string",
     review_event |-> "enum"]

ManageBranchesSchema ==
    [owner |-> "string", repo |-> "string", branch |-> "string",
     sha |-> "string", protection |-> "object"]

ManageReleasesSchema ==
    [owner |-> "string", repo |-> "string", release_id |-> "number",
     tag_name |-> "string"]

ManageActionsSchema ==
    [owner |-> "string", repo |-> "string",
     workflow_id |-> "string_or_number", run_id |-> "number",
     artifact_id |-> "number", ref |-> "string", inputs |-> "object"]

GitHubSearchSchema ==
    [q |-> "string"]

SchemaOf(tool) ==
    CASE tool = "gh_manage_repos"    -> ManageReposSchema
      [] tool = "gh_manage_issues"   -> ManageIssuesSchema
      [] tool = "gh_manage_pulls"    -> ManagePullsSchema
      [] tool = "gh_manage_branches" -> ManageBranchesSchema
      [] tool = "gh_manage_releases" -> ManageReleasesSchema
      [] tool = "gh_manage_actions"  -> ManageActionsSchema
      [] tool = "gh_search"          -> GitHubSearchSchema

\* mutant: q is declared with .optional()
RequiredByShape_AllOptional(tool) == {}

\* fields declared without .optional()
RequiredByShape(tool) ==
    IF tool = "gh_search" THEN {"q"} ELSE {}

\* the value classes a supplied field can have
FieldValues == {Undefined, "truthy", "falsy", "illtyped"}

\* the explicit per-call token argument: absent, empty string, or a token
TokenArgs == {Undefined, "", "ghp_arg"}

\* number of fields of a request that are falsy or ill-typed
OddCount(flds) ==
    Cardinality({f \in DOMAIN flds : flds[f] \in {"falsy", "illtyped"}})

\* fields no predicate reads: the dispatcher hands them to the upstream
\* call
PassedOn(tool) ==
    CASE tool = "gh_manage_repos"   -> {"per_page", "page"}
      [] tool = "gh_manage_actions" -> {"ref", "inputs"}
      [] OTHER -> {}

\* the operation whose call takes the fields handed on
PassedOnOperation(tool) ==
    CASE tool = "gh_manage_repos"   -> "list"
      [] tool = "gh_manage_actions" -> "trigger_workflow"

\* requests that leave the fields handed on absent
RequestsOf(tool) ==
    [tool : {tool},
     operation : OperationsOf(tool) \cup {InvalidOperation},
     token : TokenArgs,
     flds : {fl \in [DOMAIN SchemaOf(tool) -> FieldValues] :
                /\ OddCount(fl) <= MaxOdd
                /\ \A f \in PassedOn(tool) : fl[f] = Undefined}]

\* requests that vary the fields handed on: every other field carries a
\* value
PassedOnRequests(tool) ==
    [tool : {tool},
     operation : {PassedOnOperation(tool)},
     token : TokenArgs,
     flds : {fl \in [DOMAIN SchemaOf(tool) -> FieldValues] :
                \A f \in DOMAIN fl \ PassedOn(tool) : fl[f] = "truthy"}]

Requests ==
    UNION {RequestsOf(tool) : tool \in allTools}
      \cup PassedOnRequests("gh_manage_repos")
      \cup PassedOnRequests("gh_manage_actions")

\* ------------------------------------------------------------------------
\* Validation: structural parse, then the refine predicate
\* ------------------------------------------------------------------------
\* JavaScript !!data.f
Truthy(data, f) == data.flds[f] = "truthy"

\* z.<type>().optional() applied to one field
FieldParses(tool, f, v) ==
    CASE v = Undefined  -> f \notin RequiredByShape(tool)
      [] v = "truthy"   -> TRUE
      [] v = "falsy"    -> SchemaOf(tool)[f] \in
                              {"string", "number", "string_or_number"}
      [] v = "illtyped" -> FALSE

\* z.object({...}) with the operation enum
ShapeParses(data) ==
    /\ data.operation \in OperationsOf(data.tool)
    /\ \A f \in DOMAIN data.flds : FieldParses(data.tool, f, data.flds[f])

\* mutant: transfer is checked like get (new_owner is not required)
ManageReposRefine_TransferAsGet(data) ==
    CASE data.operation = "create" -> Truthy(data, "name")
      [] data.operation \in {"get", "update", "delete", "fork", "transfer"} ->
            Truthy(data, "owner") /\ Truthy(data, "repo")
      [] data.operation = "list" -> TRUE
      [] OTHER -> FALSE

ManageReposRefine(data) ==
    CASE data.operation = "create" -> Truthy(data, "name")
      [] data.operation \in {"get", "update", "delete", "fork"} ->
            Truthy(data, "owner") /\ Truthy(data, "repo")
      [] data.operation = "transfer" ->
            Truthy(data, "owner") /\ Truthy(data, "repo")
              /\ Truthy(data, "new_owner")
      [] data.operation = "list" -> TRUE
      [] OTHER -> FALSE

\* mutant: comment is checked like get (comment_body is not required)
ManageIssuesRefine_CommentAsGet(data) ==
    CASE data.operation = "create" ->
            Truthy(data, "owner") /\ Truthy(data, "repo")
              /\ Truthy(data, "title")
      [] data.operation \in
            {"get", "update", "close", "assign", "label", "comment"} ->
            Truthy(data, "owner") /\ Truthy(data, "repo")
              /\ Truthy(data, "issue_number")
      [] data.operation = "list" ->
            Truthy(data, "owner") /\ Truthy(data, "repo")
      [] data.operation = "search" -> Truthy(data, "q")
      [] OTHER -> FALSE

ManageIssuesRefine(data) ==
    CASE data.operation = "create" ->
            Truthy(data, "owner") /\ Truthy(data, "repo")
              /\ Truthy(data, "title")
      [] data.operation \in {"get", "update", "close", "assign", "label"} ->
            Truthy(data, "owner") /\ Truthy(data, "repo")
              /\ Truthy(data, "issue_number")
      [] data.operation = "comment" ->
            Truthy(data, "owner") /\ Truthy(data, "repo")
              /\ Truthy(data, "issue_number") /\ Truthy(data, "comment_body")
      [] data.operation = "list" ->
            Truthy(data, "owner") /\ Truthy(data, "repo")
      [] data.operation = "search" -> Truthy(data, "q")
      [] OTHER -> FALSE

ManagePullsRefine(data) ==
    CASE data.operation = "create" ->
            Truthy(data, "owner") /\ Truthy(data, "repo")
              /\ Truthy(data, "title") /\ Truthy(data, "head")
              /\ Truthy(data, "base")
      [] data.operation \in {"get", "update", "merge", "close"} ->
            Truthy(data, "owner") /\ Truthy(data, "repo")
              /\ Truthy(data, "pull_number")
      [] data.operation = "review" ->
            Truthy(data, "owner") /\ Truthy(data, "repo")
              /\ Truthy(data, "pull_number") /\ Truthy(data, "review_event")
      [] data.operation \in {"approve", "request_changes"} ->
            Truthy(data, "owner") /\ Truthy(data, "repo")
              /\ Truthy(data, "pull_number")
      [] data.operation = "list" ->
            Truthy(data, "owner") /\ Truthy(data, "repo")
      [] OTHER -> FALSE

\* mutant: protect and update_protection are checked like get (the
\* protection object is not required)
ManageBranchesRefine_ProtectAsGet(data) ==
    CASE data.operation \in
            {"create", "get", "delete", "get_protection", "protect",
             "update_protection"} ->
            Truthy(data, "owner") /\ Truthy(data, "repo")
              /\ Truthy(data, "branch")
      [] data.operation = "list" ->
            Truthy(data, "owner") /\ Truthy(data, "repo")
      [] OTHER -> FALSE

ManageBranchesRefine(data) ==
    CASE data.operation = "create" ->
            Truthy(data, "owner") /\ Truthy(data, "repo")
              /\ Truthy(data, "branch")
      [] data.operation \in {"get", "delete", "get_protection"} ->
            Truthy(data, "owner") /\ Truthy(data, "repo")
              /\ Truthy(data, "branch")
      [] data.operation \in {"protect", "update_protection"} ->
            Truthy(data, "owner") /\ Truthy(data, "repo")
              /\ Truthy(data, "branch") /\ Truthy(data, "protection")
      [] data.operation = "list" ->
            Truthy(data, "owner") /\ Truthy(data, "repo")
      [] OTHER -> FALSE

\* mutant: get requires release_id and tag_name together
ManageReleasesRefine_GetNeedsBoth(data) ==
    CASE data.operation = "create" ->
            Truthy(data, "owner") /\ Truthy(data, "repo")
              /\ Truthy(data, "tag_name")
      [] data.operation = "get" ->
            Truthy(data, "owner") /\ Truthy(data, "repo")
              /\ Truthy(data, "release_id") /\ Truthy(data, "tag_name")
      [] data.operation \in {"update", "delete", "publish"} ->
            Truthy(data, "owner") /\ Truthy(data, "repo")
              /\ Truthy(data, "release_id")
      [] data.operation \in {"get_latest", "list"} ->
            Truthy(data, "owner") /\ Truthy(data, "repo")
      [] OTHER -> FALSE

ManageReleasesRefine(data) ==
    CASE data.operation = "create" ->
            Truthy(data, "owner") /\ Truthy(data, "repo")
              /\ Truthy(data, "tag_name")
      [] data.operation = "get" ->
            Truthy(data, "owner") /\ Truthy(data, "repo")
              /\ (Truthy(data, "release_id") \/ Truthy(data, "tag_name"))
      [] data.operation \in {"update", "delete", "publish"} ->
            Truthy(data, "owner") /\ Truthy(data, "repo")
              /\ Truthy(data, "release_id")
      [] data.operation \in {"get_latest", "list"} ->
            Truthy(data, "owner") /\ Truthy(data, "repo")
      [] OTHER -> FALSE

\* mutant: the run-level operations are checked like the repo-level ones
\* (run_id is not required)
ManageActionsRefine_RunAsList(data) ==
    CASE data.operation \in
            {"list_workflows", "list_runs", "list_artifacts",
             "list_secrets", "get_run", "cancel_run", "rerun_workflow"} ->
            Truthy(data, "owner") /\ Truthy(data, "repo")
      [] data.operation \in {"get_workflow", "trigger_workflow"} ->
            Truthy(data, "owner") /\ Truthy(data, "repo")
              /\ Truthy(data, "workflow_id")
      [] data.operation \in {"get_artifact", "download_artifact"} ->
            Truthy(data, "owner") /\ Truthy(data, "repo")
              /\ Truthy(data, "artifact_id")
      [] OTHER -> FALSE

ManageActionsRefine(data) ==
    CASE data.operation \in
            {"list_workflows", "list_runs", "list_artifacts",
             "list_secrets"} ->
            Truthy(data, "owner") /\ Truthy(data, "repo")
      [] data.operation \in {"get_workflow", "trigger_workflow"} ->
            Truthy(data, "owner") /\ Truthy(data, "repo")
              /\ Truthy(data, "workflow_id")
      [] data.operation \in {"get_run", "cancel_run", "rerun_workflow"} ->
            Truthy(data, "owner") /\ Truthy(data, "repo")
              /\ Truthy(data, "run_id")
      [] data.operation \in {"get_artifact", "download_artifact"} ->
            Truthy(data, "owner") /\ Truthy(data, "repo")
              /\ Truthy(data, "artifact_id")
      [] OTHER -> FALSE

\* GitHubSearchSchema has no refine step
Refine(data) ==
    CASE data.tool = "gh_manage_repos"    -> ManageReposRefine(data)
      [] data.tool = "gh_manage_issues"   -> ManageIssuesRefine(data)
      [] data.tool = "gh_manage_pulls"    -> ManagePullsRefine(data)
      [] data.tool = "gh_manage_branches" -> ManageBranchesRefine(data)
      [] data.tool = "gh_manage_releases" -> ManageReleasesRefine(data)
      [] data.tool = "gh_manage_actions"  -> ManageActionsRefine(data)
      [] data.tool = "gh_search"          -> TRUE

\* Schema.safeParse(params).success
safeParse(params) == ShapeParses(params) /\ Refine(params)


\* ------------------------------------------------------------------------
\* Errors and text
\* ------------------------------------------------------------------------
\* McpError of the MCP SDK: message is `MCP error ${code}: ${message}`
McpError(code, message) ==
    [code |-> code, message |-> <<"MCP error ", code, ": ">> \o message]

NoError == [code |-> Undefined, message |-> <<>>]

\* HTTP statuses an upstream failure can carry
Statuses == {401, 403, 404, 422, 500}

\* messages an upstream failure can carry (possibly empty)
UpstreamMessages == {"", "upstream message"}

\* What an Octokit call can throw: a RequestError (an Error with a status,
\* see GitHubError), an Error without status (network, timeout), or a value
\* that is no Error at all.
Failures ==
    [kind : {"RequestError"}, status : Statuses, message : UpstreamMessages]
      \cup [kind : {"Error"}, message : {"network timeout"}]
      \cup [kind : {"value"}, text : {"thrown value"}]

\* error && typeof error === 'object' && 'status' in error
HasStatus(f) == f.kind = "RequestError"

\* error instanceof Error
IsError(f) == f.kind \in {"RequestError", "Error"}

\* JavaScript a || b on strings
OrElse(a, b) == IF a = "" \/ a = Undefined THEN b ELSE a

AuthenticationText ==
    "Invalid or expired GitHub token. Please check your authentication."
AuthorizationText ==
    "Access forbidden. Check your token permissions or rate limits."
NotFoundText ==
    "Resource not found. Check repository/organization names."
InvalidRequestText == "Invalid request parameters. "

\* mutant: the 422 case is missing, so 422 falls to the default branch
handleGitHubError_No422(error, context) ==
    IF HasStatus(error)
    THEN CASE error.status = 401 ->
                McpError("InvalidParams", <<context, ": ", AuthenticationText>>)
           [] error.status = 403 ->
                McpError("InvalidParams", <<context, ": ", AuthorizationText>>)
           [] error.status = 404 ->
                McpError("InvalidParams", <<context, ": ", NotFoundText>>)
           [] OTHER ->
                McpError("InternalError",
                         <<context, ": ", "GitHub API error (",
                           ToString(error.status),
                           "): ", OrElse(error.message, "Unknown error")>>)
    ELSE IF IsError(error)
         THEN McpError("InternalError", <<context, ": ", error.message>>)
         ELSE McpError("InternalError",
                       <<context, ": ", "Unknown error occurred">>)

handleGitHubError(error, context) ==
    IF HasStatus(error)
    THEN CASE error.status = 401 ->
                McpError("InvalidParams", <<context, ": ", AuthenticationText>>)
           [] error.status = 403 ->
                McpError("InvalidParams", <<context, ": ", AuthorizationText>>)
           [] error.status = 404 ->
                McpError("InvalidParams", <<context, ": ", NotFoundText>>)
           [] error.status = 422 ->
                McpError("InvalidParams",
                         <<context, ": ", InvalidRequestText,
                           OrElse(error.message, "")>>)
           [] OTHER ->
                McpError("InternalError",
                         <<context, ": ", "GitHub API error (",
                           ToString(error.status),
                           "): ", OrElse(error.message, "Unknown error")>>)
    ELSE IF IsError(error)
         THEN McpError("InternalError", <<context, ": ", error.message>>)
         ELSE McpError("InternalError",
                       <<context, ": ", "Unknown error occurred">>)

ConnectContext == "Failed to connect to GitHub API"

\* the catch block of executeManage*: an McpError is rethrown, anything
\* else is wrapped with the tool's prefix and the raw message
OperationFailedPrefix(tool) ==
    CASE tool = "gh_manage_repos"    -> "Repository operation failed: "
      [] tool = "gh_manage_issues"   -> "Issue operation failed: "
      [] tool = "gh_manage_pulls"    -> "Pull request operation failed: "
      [] tool = "gh_manage_branches" -> "Branch operation failed: "
      [] tool = "gh_manage_releases" -> "Release operation failed: "
      [] tool = "gh_manage_actions"  -> "GitHub Actions operation failed: "
      [] tool = "gh_search"          -> "GitHub search operation failed: "

WrapOperationFailure(tool, f) ==
    McpError("InternalError",
             <<OperationFailedPrefix(tool),
               IF IsError(f) THEN f.message ELSE f.text>>)

\* ------------------------------------------------------------------------
\* Token resolver
\* ------------------------------------------------------------------------
NoTokenText ==
    "No GitHub token provided. Provide one in the tool arguments, via the --token CLI option, or set the GITHUB_TOKEN environment variable."

\* JavaScript truthiness of an optional string
Present(v) == v # Undefined /\ v # ""

\* mutant: the environment variable is consulted before the --token option
getGitHubToken_EnvFirst(tokenArg, cli, env) ==
    IF Present(tokenArg) THEN [threw |-> FALSE, value |-> tokenArg]
    ELSE IF Present(env) THEN [threw |-> FALSE, value |-> env]
    ELSE IF Present(cli) THEN [threw |-> FALSE, value |-> cli]
    ELSE [threw |-> TRUE,
          value |-> McpError("InvalidParams", <<NoTokenText>>)]

\* getGitHubToken: [threw |-> FALSE, value |-> token] or the thrown McpError
getGitHubToken(tokenArg, cli, env) ==
    IF Present(tokenArg) THEN [threw |-> FALSE, value |-> tokenArg]
    ELSE IF Present(cli) THEN [threw |-> FALSE, value |-> cli]
    ELSE IF Present(env) THEN [threw |-> FALSE, value |-> env]
    ELSE [threw |-> TRUE,
          value |-> McpError("InvalidParams", <<NoTokenText>>)]

\* ------------------------------------------------------------------------
\* Output envelopes
\* ------------------------------------------------------------------------
TextSegment(parts) == [type |-> "text", text |-> parts]

\* mutant: a validation failure is reported with the generic error prefix
InvalidInputEnvelope_AsError ==
    [content |-> <<TextSegment(<<"Error: ", "[object Object]">>)>>,
     isError |-> TRUE]

\* `Invalid input: ${validationResult.error.format()}`: an object in a
\* template string
InvalidInputEnvelope ==
    [content |-> <<TextSegment(<<"Invalid input: ", "[object Object]">>)>>,
     isError |-> TRUE]

ErrorEnvelope(err) ==
    [content |-> <<TextSegment(<<"Error: ">> \o err.message)>>,
     isError |-> TRUE]

\* JSON.stringify(value, null, 2)
JSONstringify(value) == [json |-> value]

SuccessLabel(tool) ==
    CASE tool = "gh_manage_repos"    -> "Repository "
      [] tool = "gh_manage_issues"   -> "Issue "
      [] tool = "gh_manage_pulls"    -> "Pull request "
      [] tool = "gh_manage_branches" -> "Branch "
      [] tool = "gh_manage_releases" -> "Release "
      [] tool = "gh_manage_actions"  -> "GitHub Actions "

\* mutant: the status line and the payload are joined in one segment
SuccessEnvelope_OneSegment(tool, res) ==
    [content |->
       <<TextSegment(<<res.operation,
                       " operation completed successfully",
                       JSONstringify(res.result)>>)>>]

\* the success return of execute: no isError key
SuccessEnvelope(tool, res) ==
    IF tool = "gh_search"
    THEN [content |->
            <<TextSegment(<<"GitHub ", res.operation, " search completed",
                            " - Found ", ToString(res.result.total_count),
                            " results, showing ",
                            ToString(Len(res.result.items)),
                            " items">>),
              TextSegment(<<JSONstringify(res.result)>>)>>]
    ELSE [content |->
            <<TextSegment(<<SuccessLabel(tool), res.operation,
                            " operation completed successfully">>),
              TextSegment(<<JSONstringify(res.result)>>)>>]

\* placeholder while nothing has been returned
NoOutput == [content |-> <<>>]

\* result.isError as the caller reads it (absent key is falsy)
IsErrorOf(env) == "isError" \in DOMAIN env /\ env.isError


\* ------------------------------------------------------------------------
\* Dispatch: the upstream calls of each operation, in the order issued
\* ------------------------------------------------------------------------
\* mutant: the switch has no case for transfer
ManageReposCalls_NoTransfer(input) ==
    CASE input.operation = "create" -> <<"repos.createForAuthenticatedUser">>
      [] input.operation = "get"      -> <<"repos.get">>
      [] input.operation = "update"   -> <<"repos.update">>
      [] input.operation = "delete"   -> <<"repos.delete">>
      [] input.operation = "fork"     -> <<"repos.createFork">>
      [] input.operation = "list" -> <<"repos.listForAuthenticatedUser">>
      [] OTHER -> <<>>

ManageReposCalls(input) ==
    CASE input.operation = "create" -> <<"repos.createForAuthenticatedUser">>
      [] input.operation = "get"      -> <<"repos.get">>
      [] input.operation = "update"   -> <<"repos.update">>
      [] input.operation = "delete"   -> <<"repos.delete">>
      [] input.operation = "fork"     -> <<"repos.createFork">>
      [] input.operation = "transfer" -> <<"repos.transfer">>
      [] input.operation = "list" -> <<"repos.listForAuthenticatedUser">>
      [] OTHER -> <<>>

ManageIssuesCalls(input) ==
    CASE input.operation = "create"  -> <<"issues.create">>
      [] input.operation = "get"     -> <<"issues.get">>
      [] input.operation \in {"update", "close", "assign", "label"} ->
            <<"issues.update">>
      [] input.operation = "comment" -> <<"issues.createComment">>
      [] input.operation = "list"    -> <<"issues.listForRepo">>
      [] input.operation = "search"  -> <<"search.issuesAndPullRequests">>
      [] OTHER -> <<>>

ManagePullsCalls(input) ==
    CASE input.operation = "create" -> <<"pulls.create">>
      [] input.operation = "get"    -> <<"pulls.get">>
      [] input.operation \in {"update", "close"} -> <<"pulls.update">>
      [] input.operation = "merge"  -> <<"pulls.merge">>
      [] input.operation \in {"review", "approve", "request_changes"} ->
            <<"pulls.createReview">>
      [] input.operation = "list"   -> <<"pulls.list">>
      [] OTHER -> <<>>

\* mutant: create goes straight to git.createRef
ManageBranchesCalls_OneCall(input) ==
    CASE input.operation = "create" -> <<"git.createRef">>
      [] input.operation = "get"    -> <<"repos.getBranch">>
      [] input.operation = "delete" -> <<"git.deleteRef">>
      [] input.operation = "list"   -> <<"repos.listBranches">>
      [] input.operation \in {"protect", "update_protection"} ->
            <<"repos.updateBranchProtection">>
      [] input.operation = "get_protection" ->
            <<"repos.getBranchProtection">>
      [] OTHER -> <<>>

\* create resolves the default branch head first when no sha is given
ManageBranchesCalls(input) ==
    CASE input.operation = "create" ->
            IF ~Truthy(input, "sha")
            THEN <<"repos.get", "repos.getBranch", "git.createRef">>
            ELSE <<"git.createRef">>
      [] input.operation = "get"    -> <<"repos.getBranch">>
      [] input.operation = "delete" -> <<"git.deleteRef">>
      [] input.operation = "list"   -> <<"repos.listBranches">>
      [] input.operation \in {"protect", "update_protection"} ->
            <<"repos.updateBranchProtection">>
      [] input.operation = "get_protection" ->
            <<"repos.getBranchProtection">>
      [] OTHER -> <<>>

ManageReleasesCalls(input) ==
    CASE input.operation = "create" -> <<"repos.createRelease">>
      [] input.operation = "get" ->
            IF Truthy(input, "release_id")
            THEN <<"repos.getRelease">>
            ELSE <<"repos.getReleaseByTag">>
      [] input.operation \in {"update", "publish"} ->
            <<"repos.updateRelease">>
      [] input.operation = "delete"     -> <<"repos.deleteRelease">>
      [] input.operation = "get_latest" -> <<"repos.getLatestRelease">>
      [] input.operation = "list"       -> <<"repos.listReleases">>
      [] OTHER -> <<>>

ManageActionsCalls(input) ==
    CASE input.operation = "list_workflows" ->
            <<"actions.listRepoWorkflows">>
      [] input.operation = "get_workflow" -> <<"actions.getWorkflow">>
      [] input.operation = "trigger_workflow" ->
            <<"actions.createWorkflowDispatch">>
      [] input.operation = "list_runs" -> <<"actions.listWorkflowRuns">>
      [] input.operation = "get_run"   -> <<"actions.getWorkflowRun">>
      [] input.operation = "cancel_run" -> <<"actions.cancelWorkflowRun">>
      [] input.operation = "rerun_workflow" -> <<"actions.reRunWorkflow">>
      [] input.operation = "list_artifacts" ->
            <<"actions.listArtifactsForRepo">>
      [] input.operation = "get_artifact" -> <<"actions.getArtifact">>
      [] input.operation = "download_artifact" ->
            <<"actions.downloadArtifact">>
      [] input.operation = "list_secrets" -> <<"actions.listRepoSecrets">>
      [] OTHER -> <<>>

GitHubSearchCalls(input) ==
    CASE input.operation = "repositories" -> <<"search.repos">>
      [] input.operation \in {"issues", "pull_requests"} ->
            <<"search.issuesAndPullRequests">>
      [] input.operation = "users"   -> <<"search.users">>
      [] input.operation = "code"    -> <<"search.code">>
      [] input.operation = "commits" -> <<"search.commits">>
      [] input.operation = "topics"  -> <<"search.topics">>
      [] OTHER -> <<>>

\* the switch of executeManage* / executeGitHubSearch; the empty sequence
\* is the default branch (throw Unsupported operation)
Dispatch(input) ==
    CASE input.tool = "gh_manage_repos"    -> ManageReposCalls(input)
      [] input.tool = "gh_manage_issues"   -> ManageIssuesCalls(input)
      [] input.tool = "gh_manage_pulls"    -> ManagePullsCalls(input)
      [] input.tool = "gh_manage_branches" -> ManageBranchesCalls(input)
      [] input.tool = "gh_manage_releases" -> ManageReleasesCalls(input)
      [] input.tool = "gh_manage_actions"  -> ManageActionsCalls(input)
      [] input.tool = "gh_search"          -> GitHubSearchCalls(input)

UnsupportedOperation(input) ==
    McpError("InvalidParams",
             <<IF input.tool = "gh_search"
               THEN "Unsupported search operation: "
               ELSE "Unsupported operation: ",
               input.operation>>)

\* what a successful upstream call answers: { status, url, data }.  The
\* repository's default branch is not "main".
UpstreamResponse(api) ==
    [status |-> 200,
     url |-> "https://api.github.com/",
     data |-> CASE api \in {"search.repos", "search.issuesAndPullRequests",
                            "search.users", "search.code", "search.commits",
                            "search.topics"} ->
                     [total_count |-> 1, items |-> <<[id |-> 1]>>]
                [] api = "repos.get" ->
                     [id |-> 123, from |-> api, default_branch |-> "trunk"]
                [] api = "repos.getBranch" ->
                     [id |-> 123, from |-> api,
                      commit |-> [sha |-> "sha of the head"]]
                [] OTHER -> [id |-> 123, from |-> api]]

\* the { operation, result } a dispatcher case returns: the response data,
\* or a synthetic acknowledgement
OperationResult(input, response) ==
    [operation |-> input.operation,
     result |->
       CASE input.tool = "gh_manage_repos" /\ input.operation = "delete" ->
              [deleted |-> TRUE, repository |-> "owner/repo"]
         [] input.tool = "gh_manage_branches"
              /\ input.operation = "delete" ->
              [message |-> "Branch deleted successfully"]
         [] input.tool = "gh_manage_releases"
              /\ input.operation = "delete" ->
              [message |-> "Release deleted successfully"]
         [] input.tool = "gh_manage_actions"
              /\ input.operation = "trigger_workflow" ->
              [message |-> "Workflow triggered successfully",
               status |-> response.status]
         [] input.tool = "gh_manage_actions"
              /\ input.operation = "cancel_run" ->
              [message |-> "Workflow run cancelled successfully",
               status |-> response.status]
         [] input.tool = "gh_manage_actions"
              /\ input.operation = "rerun_workflow" ->
              [message |-> "Workflow rerun triggered successfully",
               status |-> response.status]
         [] input.tool = "gh_manage_actions"
              /\ input.operation = "download_artifact" ->
              [message |-> "Artifact download URL generated",
               download_url |-> response.url,
               status |-> response.status]
         [] OTHER -> response.data]

NoResult == [operation |-> Undefined, result |-> Undefined]

\* the empty object literal {}
EmptyObject == [json |-> "{}"]

\* the argument of a call whose parameters are not modelled
ParamsOfInput == [of |-> "input"]

\* users.getAuthenticated() takes no argument
NoParams == [of |-> "none"]

\* mutant: the workflow is triggered on the ref given, with no default
TriggerWorkflowParams_NoDefault(input) ==
    [owner |-> input.flds.owner, repo |-> input.flds.repo,
     workflow_id |-> input.flds.workflow_id,
     ref |-> input.flds.ref,
     inputs |-> IF Truthy(input, "inputs")
                THEN input.flds.inputs ELSE EmptyObject]

\* trigger_workflow: ref: input.ref || 'main', inputs: input.inputs || {}
TriggerWorkflowParams(input) ==
    [owner |-> input.flds.owner, repo |-> input.flds.repo,
     workflow_id |-> input.flds.workflow_id,
     ref |-> IF Truthy(input, "ref") THEN input.flds.ref ELSE "main",
     inputs |-> IF Truthy(input, "inputs")
                THEN input.flds.inputs ELSE EmptyObject]

\* mutant: the ref is created from input.sha, looked up or not
BranchCreateParams_ShaAsGiven(input, api) ==
    CASE api = "repos.get" ->
           [owner |-> input.flds.owner, repo |-> input.flds.repo]
      [] api = "repos.getBranch" ->
           [owner |-> input.flds.owner, repo |-> input.flds.repo,
            branch |-> UpstreamResponse("repos.get").data.default_branch]
      [] api = "git.createRef" ->
           [owner |-> input.flds.owner, repo |-> input.flds.repo,
            ref |-> <<"refs/heads/", input.flds.branch>>,
            sha |-> input.flds.sha]

\* branch create: the lookups take the default branch from the answer of
\* repos.get and the base sha from the answer of repos.getBranch
BranchCreateParams(input, api) ==
    CASE api = "repos.get" ->
           [owner |-> input.flds.owner, repo |-> input.flds.repo]
      [] api = "repos.getBranch" ->
           [owner |-> input.flds.owner, repo |-> input.flds.repo,
            branch |-> UpstreamResponse("repos.get").data.default_branch]
      [] api = "git.createRef" ->
           [owner |-> input.flds.owner, repo |-> input.flds.repo,
            ref |-> <<"refs/heads/", input.flds.branch>>,
            sha |-> IF Truthy(input, "sha")
                    THEN input.flds.sha
                    ELSE UpstreamResponse("repos.getBranch").data.commit.sha]

\* mutant: the lookup by id is handed the tag
ReleaseGetParams_TagForId(input, api) ==
    [owner |-> input.flds.owner, repo |-> input.flds.repo,
     tag |-> input.flds.tag_name]

\* release get: release_id for getRelease, tag: input.tag_name for
\* getReleaseByTag
ReleaseGetParams(input, api) ==
    IF api = "repos.getRelease"
    THEN [owner |-> input.flds.owner, repo |-> input.flds.repo,
          release_id |-> input.flds.release_id]
    ELSE [owner |-> input.flds.owner, repo |-> input.flds.repo,
          tag |-> input.flds.tag_name]

\* repository list: per_page: input.per_page, page: input.page
RepoListParams(input) ==
    [per_page |-> input.flds.per_page, page |-> input.flds.page]

\* The argument object of the k-th upstream call of the switch, for the
\* cases whose arguments are modelled.  A field handed on keeps the value
\* class the caller gave.
CallParams(input, k) ==
    CASE input.tool = "gh_manage_actions"
           /\ input.operation = "trigger_workflow" ->
           TriggerWorkflowParams(input)
      [] input.tool = "gh_manage_branches" /\ input.operation = "create" ->
           BranchCreateParams(input, Dispatch(input)[k])
      [] input.tool = "gh_manage_releases" /\ input.operation = "get" ->
           ReleaseGetParams(input, Dispatch(input)[k])
      [] input.tool = "gh_manage_repos" /\ input.operation = "list" ->
           RepoListParams(input)
      [] OTHER -> ParamsOfInput


\* ------------------------------------------------------------------------
\* GitHubClient (the gateway singleton)
\* ------------------------------------------------------------------------
\* new Octokit({ auth: token }) made by execution e
Octokit(token, e) == [auth |-> token, by |-> e]

\* defaultClient === undefined
NoClient == [auth |-> Undefined, by |-> 0]

\* this.clients.set(token, octokit)
MapSet(map, key, value) ==
    [k \in DOMAIN map \cup {key} |-> IF k = key THEN value ELSE map[k]]

\* new Map() / this.clients.clear()
EmptyMap == [k \in {} |-> NoClient]

NoClientError ==
    McpError("InvalidParams",
             <<"No GitHub client available. Please connect first.">>)

\* mutant: the default client is preferred to the one stored for the token
getClient_DefaultFirst(map, dflt, token) ==
    IF dflt # NoClient
    THEN [threw |-> FALSE, value |-> dflt]
    ELSE IF Present(token) /\ token \in DOMAIN map
         THEN [threw |-> FALSE, value |-> map[token]]
         ELSE [threw |-> TRUE, value |-> NoClientError]

\* getClient(token): [threw |-> FALSE, value |-> client] or the McpError
getClient(map, dflt, token) ==
    IF Present(token) /\ token \in DOMAIN map
    THEN [threw |-> FALSE, value |-> map[token]]
    ELSE IF dflt # NoClient
         THEN [threw |-> FALSE, value |-> dflt]
         ELSE [threw |-> TRUE, value |-> NoClientError]

\* ------------------------------------------------------------------------
\* GitHubServer: the registered tools and the tools configuration file
\* ------------------------------------------------------------------------
\* new GitHubServer(allTools): the registered tools in registration order
availableToolsList ==
    <<"gh_manage_repos", "gh_manage_issues", "gh_manage_pulls",
      "gh_manage_branches", "gh_manage_releases", "gh_manage_actions",
      "gh_search">>

Range(seq) == {seq[i] : i \in 1..Len(seq)}

\* --tools-config not given
NoToolsConfig == [given |-> FALSE, content |-> "none", enabledTools |-> <<>>]

\* lists of names a configuration file can carry: empty, one name, two
\* names in or against registration order, a repeated name, a name that
\* is no tool
EnabledToolsLists ==
    {<<>>,
     <<"gh_manage_repos">>,
     <<"gh_search">>,
     <<"gh_manage_repos", "gh_search">>,
     <<"gh_search", "gh_manage_repos">>,
     <<"gh_manage_issues", "gh_manage_issues">>,
     <<"gh_manage_repos", "gh_other">>,
     <<"gh_other">>}

\* options.toolsConfig and what the file holds: a config whose
\* enabledTools is an array of strings ("valid"), JSON of another shape
\* ("invalid"), a file that cannot be read ("unreadable") or whose text is
\* not JSON ("unparsable")
ToolsConfigs ==
    {NoToolsConfig}
      \cup [given : {TRUE}, content : {"valid"},
            enabledTools : EnabledToolsLists]
      \cup [given : {TRUE},
            content : {"invalid", "unreadable", "unparsable"},
            enabledTools : {<<>>}]

\* mutant: a file that cannot be used enables no tool
loadAndFilterTools_NoneOnFailure(cfg) ==
    IF cfg.given
    THEN IF cfg.content = "valid"
         THEN LET listed(name) == name \in Range(cfg.enabledTools)
              IN  SelectSeq(availableToolsList, listed)
         ELSE <<>>
    ELSE availableToolsList

\* mutant: the enabled tools are taken in the order of the file
loadAndFilterTools_FileOrder(cfg) ==
    IF cfg.given /\ cfg.content = "valid"
    THEN LET registered(name) == name \in Range(availableToolsList)
         IN  SelectSeq(cfg.enabledTools, registered)
    ELSE availableToolsList

\* loadAndFilterTools: the value of toolsToEnable at its end
loadAndFilterTools(cfg) ==
    IF cfg.given /\ cfg.content = "valid"
    THEN LET listed(name) == name \in Range(cfg.enabledTools)
         IN  SelectSeq(availableToolsList, listed)
    ELSE availableToolsList

\* toolsToEnable.reduce((acc, tool) => { acc[tool.name] = tool; ... }, {})
ToolsMap(tools) == [name \in Range(tools) |-> name]

\* the ListTools handler: one entry per enabled tool
ListTools(tools) == [i \in 1..Len(tools) |-> [name |-> tools[i]]]

\* names every JavaScript object inherits from Object.prototype: the
\* lookup enabledToolsMap[name] finds a value for them that is no tool
ObjectPrototypeNames == {"constructor"}

\* names a call can carry that are not registered
UnregisteredNames == {"gh_unknown"} \cup ObjectPrototypeNames

ToolNotEnabledText ==
    "\" is available but not enabled by the current server configuration."
ToolNotFoundText == "' is not enabled or does not exist."

\* mutant: one message for every name without an entry
MethodNotFound_OneMessage(toolName) ==
    McpError("MethodNotFound", <<"Tool '", toolName, ToolNotFoundText>>)

\* the McpError thrown when enabledToolsMap has no entry for the name
MethodNotFound(toolName) ==
    IF toolName \in Range(availableToolsList)
    THEN McpError("MethodNotFound",
                  <<"Tool \"", toolName, ToolNotEnabledText>>)
    ELSE McpError("MethodNotFound",
                  <<"Tool '", toolName, ToolNotFoundText>>)

\* calling execute on an inherited member that is no tool
NotAFunctionError ==
    [code |-> "TypeError", message |-> <<"tool.execute is not a function">>]

\* ------------------------------------------------------------------------
\* State
\* ------------------------------------------------------------------------
\* slots for command executions in flight
Execs == {1, 2}

VARIABLES
    toolsConfig,    \* options.toolsConfig and the file it names
    enabledTools,   \* GitHubServer.enabledTools (names, in order)
    enabledToolsMap,\* GitHubServer.enabledToolsMap: name -> tool
    cliToken,       \* options.token (--token), fixed at start-up
    envToken,       \* process.env.GITHUB_TOKEN
    clients,        \* GitHubClient.clients: token -> Octokit
    defaultClient,  \* GitHubClient.defaultClient
    established,    \* history: successful connects since the last disconnect
    pc,             \* per execution: where its async function is suspended
    input,          \* per execution: the params execute was called with
    token,          \* per execution: the token getGitHubToken returned
    error,          \* per execution: the McpError travelling to execute's catch
    result,         \* per execution: { operation, result } of the dispatcher
    out,            \* per execution: the ToolOutput execute returned
    calls,          \* history: upstream calls issued, [api, auth]
    raised,         \* history: the raw upstream failure and where it arose
    classified,     \* history: how often handleGitHubError ran
    trace           \* history: the events of the execution, in order

gateway == <<clients, defaultClient>>
config == <<cliToken, envToken>>
router == <<toolsConfig, enabledTools, enabledToolsMap>>
exec == <<pc, input, token, error, result, out, calls, raised, classified,
          trace>>
vars == <<toolsConfig, enabledTools, enabledToolsMap, cliToken, envToken,
          clients, defaultClient, established, pc, input, token,
          error, result, out, calls, raised, classified, trace>>

NoInput ==
    [tool |-> Undefined, operation |-> Undefined, token |-> Undefined,
     flds |-> <<>>]

NoFailure == [stage |-> Undefined, failure |-> [kind |-> Undefined]]

\* values of the process-level sources
CliTokens == {Undefined, "ghp_cli"}
EnvTokens == {Undefined, "ghp_env"}

\* the constructor of GitHubServer (and run()) has called
\* loadAndFilterTools
Loaded ==
    /\ enabledTools = loadAndFilterTools(toolsConfig)
    /\ enabledToolsMap = ToolsMap(enabledTools)

\* requests handled by a server started with any tools configuration
\* (one setting of the token sources)
InitRouter ==
    /\ toolsConfig \in ToolsConfigs
    /\ Loaded
    /\ cliToken = "ghp_cli"
    /\ envToken = Undefined
    /\ clients = EmptyMap
    /\ defaultClient = NoClient
    /\ established = <<>>
    /\ pc = [e \in Execs |-> "idle"]
    /\ input = [e \in Execs |-> NoInput]
    /\ token = [e \in Execs |-> Undefined]
    /\ error = [e \in Execs |-> NoError]
    /\ result = [e \in Execs |-> NoResult]
    /\ out = [e \in Execs |-> NoOutput]
    /\ calls = [e \in Execs |-> <<>>]
    /\ raised = [e \in Execs |-> NoFailure]
    /\ classified = [e \in Execs |-> 0]
    /\ trace = [e \in Execs |-> <<>>]

\* a server started without --tools-config
Init ==
    /\ toolsConfig = NoToolsConfig
    /\ Loaded
    /\ cliToken \in CliTokens
    /\ envToken \in EnvTokens
    /\ clients = EmptyMap
    /\ defaultClient = NoClient
    /\ established = <<>>
    /\ pc = [e \in Execs |-> "idle"]
    /\ input = [e \in Execs |-> NoInput]
    /\ token = [e \in Execs |-> Undefined]
    /\ error = [e \in Execs |-> NoError]
    /\ result = [e \in Execs |-> NoResult]
    /\ out = [e \in Execs |-> NoOutput]
    /\ calls = [e \in Execs |-> <<>>]
    /\ raised = [e \in Execs |-> NoFailure]
    /\ classified = [e \in Execs |-> 0]
    /\ trace = [e \in Execs |-> <<>>]

\* ------------------------------------------------------------------------
\* tool.execute(params, getGitHubToken): one action per run-to-completion
\* segment between awaits, built from the pieces below
\* ------------------------------------------------------------------------
\* mutant: the early return of execute also runs disconnect()
Reject_Disconnects(e) ==
    /\ pc' = [pc EXCEPT ![e] = "done"]
    /\ out' = [out EXCEPT ![e] = InvalidInputEnvelope]
    /\ trace' = [trace EXCEPT ![e] = <<"validate", "disconnect", "return">>]
    /\ clients' = EmptyMap
    /\ defaultClient' = NoClient
    /\ established' = <<>>
    /\ UNCHANGED <<token, error, calls>>

\* execute: safeParse failed, the "Invalid input" ToolOutput is returned
Reject(e) ==
    /\ pc' = [pc EXCEPT ![e] = "done"]
    /\ out' = [out EXCEPT ![e] = InvalidInputEnvelope]
    /\ trace' = [trace EXCEPT ![e] = <<"validate", "return">>]
    /\ UNCHANGED <<token, error, calls, clients, defaultClient, established>>

\* getGitHubToken threw: the call sits before the try of executeManage*,
\* so the error goes straight to the catch of execute
NoCredential(e, err) ==
    /\ pc' = [pc EXCEPT ![e] = "done"]
    /\ error' = [error EXCEPT ![e] = err]
    /\ out' = [out EXCEPT ![e] = ErrorEnvelope(err)]
    /\ trace' = [trace EXCEPT ![e] = <<"validate", "resolve", "return">>]
    /\ UNCHANGED <<token, calls, clients, defaultClient, established>>

\* mutant: connect stores the client before the identity check is made
Connect_StoresFirst(e, tok) ==
    /\ pc' = [pc EXCEPT ![e] = "awaitAuth"]
    /\ token' = [token EXCEPT ![e] = tok]
    /\ calls' = [calls EXCEPT
                   ![e] = <<[api |-> "users.getAuthenticated", auth |-> tok,
                            params |-> NoParams]>>]
    /\ trace' = [trace EXCEPT ![e] = <<"validate", "resolve", "connect">>]
    /\ clients' = MapSet(clients, tok, Octokit(tok, e))
    /\ defaultClient' = Octokit(tok, e)
    /\ UNCHANGED <<error, out, established>>

\* mutant: connect is not awaited, the operation call leaves with the
\* identity check
Connect_NotAwaited(e, tok) ==
    /\ pc' = [pc EXCEPT ![e] = "awaitAuth"]
    /\ token' = [token EXCEPT ![e] = tok]
    /\ calls' = [calls EXCEPT
                   ![e] = <<[api |-> "users.getAuthenticated", auth |-> tok,
                             params |-> NoParams],
                            [api |-> Dispatch(input'[e])[1], auth |-> tok,
                             params |-> CallParams(input'[e], 1)]>>]
    /\ trace' = [trace EXCEPT
                   ![e] = <<"validate", "resolve", "connect", "call">>]
    /\ UNCHANGED <<error, out, clients, defaultClient, established>>

\* connect(token) up to `await octokit.rest.users.getAuthenticated()`
Connect(e, tok) ==
    /\ pc' = [pc EXCEPT ![e] = "awaitAuth"]
    /\ token' = [token EXCEPT ![e] = tok]
    /\ calls' = [calls EXCEPT
                   ![e] = <<[api |-> "users.getAuthenticated", auth |-> tok,
                            params |-> NoParams]>>]
    /\ trace' = [trace EXCEPT ![e] = <<"validate", "resolve", "connect">>]
    /\ UNCHANGED <<error, out, clients, defaultClient, established>>

\* From the call of execute to the first await.
Execute(e, params) ==
    /\ pc[e] = "idle"
    /\ input' = [input EXCEPT ![e] = params]
    /\ IF ~safeParse(params)
       THEN Reject(e)
       ELSE LET got == getGitHubToken(params.token, cliToken, envToken)
            IN  IF got.threw
                THEN NoCredential(e, got.value)
                ELSE Connect(e, got.value)
    /\ UNCHANGED <<router, cliToken, envToken, result, raised, classified>>

\* The CallTool handler found no tool under the name: the error it throws
\* is caught by its own catch and returned as a ToolOutput.
NotRouted(e, err) ==
    /\ pc' = [pc EXCEPT ![e] = "done"]
    /\ error' = [error EXCEPT ![e] = err]
    /\ out' = [out EXCEPT ![e] = ErrorEnvelope(err)]
    /\ trace' = [trace EXCEPT ![e] = <<"return">>]
    /\ UNCHANGED <<token, calls, clients, defaultClient, established, result,
                   raised, classified>>

\* The CallTool handler: look the name up in enabledToolsMap, then call
\* the tool's execute.
Route(e, params) ==
    /\ pc[e] = "idle"
    /\ IF params.tool \in DOMAIN enabledToolsMap
       THEN Execute(e, params)
       ELSE /\ input' = [input EXCEPT ![e] = params]
            /\ NotRouted(e, IF params.tool \in ObjectPrototypeNames
                            THEN NotAFunctionError
                            ELSE MethodNotFound(params.tool))
            /\ UNCHANGED <<router, cliToken, envToken>>

\* calls that name no registered tool
UnregisteredRequests ==
    [tool : UnregisteredNames, operation : {Undefined},
     token : {Undefined}, flds : {<<>>}]

\* mutant: a failed identity check is tried once more before connect gives
\* up
AuthReturns_Retries(e) ==
    /\ pc[e] = "awaitAuth"
    /\ \/ /\ clients' = MapSet(clients, token[e], Octokit(token[e], e))
          /\ defaultClient' = Octokit(token[e], e)
          /\ established' =
                Append(established, [token |-> token[e],
                                     client |-> Octokit(token[e], e)])
          /\ trace' = [trace EXCEPT ![e] = Append(@, "connected")]
          /\ pc' = [pc EXCEPT ![e] = "awaitConnect"]
          /\ UNCHANGED <<error, raised, classified, calls>>
       \/ /\ Len(calls[e]) = 1
          /\ calls' = [calls EXCEPT ![e] = Append(@, calls[e][1])]
          /\ trace' = [trace EXCEPT ![e] = Append(@, "connect")]
          /\ UNCHANGED <<pc, clients, defaultClient, established, error,
                         raised, classified>>
       \/ \E f \in Failures :
            /\ Len(calls[e]) > 1
            /\ raised' = [raised EXCEPT
                            ![e] = [stage |-> "connect", failure |-> f]]
            /\ error' = [error EXCEPT
                           ![e] = handleGitHubError(f, ConnectContext)]
            /\ classified' = [classified EXCEPT ![e] = @ + 1]
            /\ pc' = [pc EXCEPT ![e] = "awaitConnect"]
            /\ UNCHANGED <<clients, defaultClient, established, trace,
                           calls>>
    /\ UNCHANGED <<router, cliToken, envToken, input, token, result, out>>

\* The identity check answers and connect settles: on success the client
\* is stored and made the default, on failure the classified error is
\* thrown.
AuthReturns(e) ==
    /\ pc[e] = "awaitAuth"
    /\ pc' = [pc EXCEPT ![e] = "awaitConnect"]
    /\ \/ /\ clients' = MapSet(clients, token[e], Octokit(token[e], e))
          /\ defaultClient' = Octokit(token[e], e)
          /\ established' =
                Append(established, [token |-> token[e],
                                     client |-> Octokit(token[e], e)])
          /\ trace' = [trace EXCEPT ![e] = Append(@, "connected")]
          /\ UNCHANGED <<error, raised, classified>>
       \/ \E f \in Failures :
            /\ raised' = [raised EXCEPT
                            ![e] = [stage |-> "connect", failure |-> f]]
            /\ error' = [error EXCEPT
                           ![e] = handleGitHubError(f, ConnectContext)]
            /\ classified' = [classified EXCEPT ![e] = @ + 1]
            /\ UNCHANGED <<clients, defaultClient, established, trace>>
    /\ UNCHANGED <<router, cliToken, envToken, input, token, result, out,
                   calls>>

\* mutant: disconnect() resets the default client but leaves the map
Finally_LeavesMap(e, err, res) ==
    /\ error' = [error EXCEPT ![e] = err]
    /\ result' = [result EXCEPT ![e] = res]
    /\ defaultClient' = NoClient
    /\ pc' = [pc EXCEPT ![e] = "awaitDisconnect"]
    /\ trace' = [trace EXCEPT ![e] = Append(@, "disconnect")]
    /\ UNCHANGED <<clients, established>>

\* mutant: disconnect() clears the map but keeps the default client
Finally_KeepsDefault(e, err, res) ==
    /\ error' = [error EXCEPT ![e] = err]
    /\ result' = [result EXCEPT ![e] = res]
    /\ clients' = EmptyMap
    /\ established' = <<>>
    /\ pc' = [pc EXCEPT ![e] = "awaitDisconnect"]
    /\ trace' = [trace EXCEPT ![e] = Append(@, "disconnect")]
    /\ UNCHANGED defaultClient

\* mutant: disconnect() sits at the end of the try block instead of in a
\* finally block, so a failure skips it
Finally_OnlyOnSuccess(e, err, res) ==
    /\ error' = [error EXCEPT ![e] = err]
    /\ result' = [result EXCEPT ![e] = res]
    /\ pc' = [pc EXCEPT ![e] = "awaitDisconnect"]
    /\ IF err = NoError
       THEN /\ clients' = EmptyMap
            /\ defaultClient' = NoClient
            /\ established' = <<>>
            /\ trace' = [trace EXCEPT ![e] = Append(@, "disconnect")]
       ELSE UNCHANGED <<clients, defaultClient, established, trace>>

\* The catch and finally blocks of executeManage*: an McpError is rethrown
\* as it is (err), the finally block calls disconnect(), whose body clears
\* the map and the default before the await suspends.
Finally(e, err, res) ==
    /\ error' = [error EXCEPT ![e] = err]
    /\ result' = [result EXCEPT ![e] = res]
    /\ clients' = EmptyMap
    /\ defaultClient' = NoClient
    /\ established' = <<>>
    /\ pc' = [pc EXCEPT ![e] = "awaitDisconnect"]
    /\ trace' = [trace EXCEPT ![e] = Append(@, "disconnect")]

\* After a successful connect: getClient(token), then the switch up to its
\* first operation call
Proceed(e) ==
    LET got == getClient(clients, defaultClient, token[e])
        plan == Dispatch(input[e])
    IN  IF got.threw
        THEN Finally(e, got.value, NoResult) /\ UNCHANGED calls
        ELSE IF plan = <<>>
        THEN Finally(e, UnsupportedOperation(input[e]), NoResult)
               /\ UNCHANGED calls
        ELSE /\ calls' = [calls EXCEPT
                            ![e] = Append(@, [api |-> plan[1],
                                              auth |-> got.value.auth,
                                              params |->
                                                CallParams(input[e], 1)])]
             /\ pc' = [pc EXCEPT ![e] = "awaitCall"]
             /\ trace' = [trace EXCEPT ![e] = Append(@, "call")]
             /\ UNCHANGED <<error, result, clients, defaultClient, established>>

\* `await github.connect(token)` resumes in executeManage*.
ConnectReturns(e) ==
    /\ pc[e] = "awaitConnect"
    /\ IF error[e] # NoError
       THEN Finally(e, error[e], NoResult) /\ UNCHANGED calls
       ELSE Proceed(e)
    /\ UNCHANGED <<router, cliToken, envToken, input, token, out, raised,
                   classified>>

\* An operation call answers. On success the case issues its next call or
\* returns { operation, result }; on failure the catch wraps the raw error.
\* Either way the finally block runs.
CallReturns(e) ==
    /\ pc[e] = "awaitCall"
    /\ LET plan == Dispatch(input[e])
           done == Len(calls[e]) - 1
       IN  \/ /\ done < Len(plan)
              /\ calls' = [calls EXCEPT
                             ![e] = Append(@,
                                      [api |-> plan[done + 1],
                                       auth |-> calls[e][done + 1].auth,
                                       params |->
                                         CallParams(input[e], done + 1)])]
              /\ trace' = [trace EXCEPT ![e] = Append(@, "call")]
              /\ UNCHANGED <<clients, defaultClient, established, pc, error,
                             result, raised>>
           \/ /\ done = Len(plan)
              /\ Finally(e, NoError,
                         OperationResult(input[e],
                                         UpstreamResponse(plan[done])))
              /\ UNCHANGED <<calls, raised>>
           \/ \E f \in Failures :
                /\ raised' = [raised EXCEPT
                                ![e] = [stage |-> "call", failure |-> f]]
                /\ Finally(e, WrapOperationFailure(input[e].tool, f),
                           NoResult)
                /\ UNCHANGED calls
    /\ UNCHANGED <<router, cliToken, envToken, input, token, out, classified>>

\* `await github.disconnect()` resumes; executeManage* settles and execute
\* builds the ToolOutput in its try or in its catch.
DisconnectReturns(e) ==
    /\ pc[e] = "awaitDisconnect"
    /\ pc' = [pc EXCEPT ![e] = "done"]
    /\ out' = [out EXCEPT
                 ![e] = IF error[e] # NoError
                        THEN ErrorEnvelope(error[e])
                        ELSE SuccessEnvelope(input[e].tool, result[e])]
    /\ trace' = [trace EXCEPT ![e] = Append(@, "return")]
    /\ UNCHANGED <<router, cliToken, envToken, clients, defaultClient,
                   established, input, token, error, result, calls, raised,
                   classified>>

\* The CallTool handler hands the ToolOutput to the transport; the
\* execution is over.
Respond(e) ==
    /\ pc[e] = "done"
    /\ pc' = [pc EXCEPT ![e] = "idle"]
    /\ input' = [input EXCEPT ![e] = NoInput]
    /\ token' = [token EXCEPT ![e] = Undefined]
    /\ error' = [error EXCEPT ![e] = NoError]
    /\ result' = [result EXCEPT ![e] = NoResult]
    /\ out' = [out EXCEPT ![e] = NoOutput]
    /\ calls' = [calls EXCEPT ![e] = <<>>]
    /\ raised' = [raised EXCEPT ![e] = NoFailure]
    /\ classified' = [classified EXCEPT ![e] = 0]
    /\ trace' = [trace EXCEPT ![e] = <<>>]
    /\ UNCHANGED <<router, cliToken, envToken, clients, defaultClient,
                   established>>

\* The documented access pattern: a call is taken only when no other call
\* is in flight (slot 1 serves it).
OneAtATime(e) == e = 1 /\ \A f \in Execs : pc[f] = "idle"

CallTool ==
    \E e \in Execs :
        OneAtATime(e)
          /\ \E params \in Requests \cup UnregisteredRequests :
                Route(e, params)

Authenticated == \E e \in Execs : AuthReturns(e)

Resumed == \E e \in Execs : ConnectReturns(e)

Answered == \E e \in Execs : CallReturns(e)

Disconnected == \E e \in Execs : DisconnectReturns(e)

Responded == \E e \in Execs : Respond(e)

Next ==
    \/ CallTool
    \/ Authenticated
    \/ Resumed
    \/ Answered
    \/ Disconnected
    \/ Responded

Spec == Init /\ [][Next]_vars

\* Every upstream call is answered or fails (Octokit settles each request)
\* and the event loop resumes each settled await, so no continuation of a
\* started execution is postponed for ever.  Nothing obliges a client to
\* send a call or the transport to take the output.
Settles ==
    \A e \in Execs :
        /\ WF_vars(AuthReturns(e))
        /\ WF_vars(ConnectReturns(e))
        /\ WF_vars(CallReturns(e))
        /\ WF_vars(DisconnectReturns(e))

\* calls of the branch command (whose create sends up to three upstream
\* calls) and of the search command, one at a time
SettlingRequests ==
    {r \in Requests : r.tool \in {"gh_manage_branches", "gh_search"}}

CallSettling ==
    \E e \in Execs :
        OneAtATime(e)
          /\ \E params \in SettlingRequests \cup UnregisteredRequests :
                Route(e, params)

NextLive ==
    \/ CallSettling
    \/ Authenticated
    \/ Resumed
    \/ Answered
    \/ Disconnected
    \/ Responded

SpecLive == Init /\ [][NextLive]_vars /\ Settles

\* ------------------------------------------------------------------------
\* Overlapping executions: the CallTool handler is async and nothing
\* serialises it, so a second call may start while the first is suspended
\* at an await.  Two slots, a small set of requests.
\* ------------------------------------------------------------------------
OverlapRequests ==
    {r \in Requests :
        /\ r.token \in {Undefined, "ghp_arg"}
        /\ \A f \in DOMAIN r.flds : r.flds[f] = Undefined
        /\ \/ r.operation = InvalidOperation
           \/ /\ r.tool = "gh_manage_repos"
              /\ r.operation \in {"list", "transfer"}}

CallAnyTime ==
    \E e \in Execs :
        \E params \in OverlapRequests \cup UnregisteredRequests :
            Route(e, params)

NextOverlap ==
    \/ CallAnyTime
    \/ Authenticated
    \/ Resumed
    \/ Answered
    \/ Disconnected
    \/ Responded

SpecOverlap == Init /\ [][NextOverlap]_vars

\* the same server started with any tools configuration
SpecRouter == InitRouter /\ [][NextOverlap]_vars

\* ------------------------------------------------------------------------
\* A call repeated: the first call is served to its end, then the same
\* params are sent again.  Slot 1 keeps the record of the first call (its
\* params, upstream calls and ToolOutput) while slot 2 serves the second.
\* ------------------------------------------------------------------------
\* list of the repository command (which needs no field) and of the
\* release command (which needs owner and repo)
ListRequests ==
    {r \in Requests :
        /\ r.operation = "list"
        /\ r.tool \in {"gh_manage_repos", "gh_manage_releases"}}

CallOnce ==
    /\ OneAtATime(1)
    /\ \E params \in ListRequests : Route(1, params)

CallAgain ==
    /\ pc[1] = "done"
    /\ pc[2] = "idle"
    /\ Route(2, input[1])

\* both outputs are handed over once the second call has returned
RespondedBoth ==
    /\ pc[2] = "done"
    /\ \E e \in Execs : Respond(e)

NextRepeat ==
    \/ CallOnce
    \/ CallAgain
    \/ Authenticated
    \/ Resumed
    \/ Answered
    \/ Disconnected
    \/ RespondedBoth

SpecRepeat == Init /\ [][NextRepeat]_vars

\* ------------------------------------------------------------------------
\* Vocabulary of the properties
\* ------------------------------------------------------------------------
Contains(seq, x) == \E i \in 1..Len(seq) : seq[i] = x

Before(seq, a, b) ==
    \E i, j \in 1..Len(seq) : i < j /\ seq[i] = a /\ seq[j] = b

Count(seq, x) == Cardinality({i \in 1..Len(seq) : seq[i] = x})

TextOf(env, i) == env.content[i].text

Returned(e) == pc[e] = "done"

\* the execution got past validation
Validated(e) == Contains(trace[e], "resolve")

\* the execution ended with the validation failure output
RejectedInput(e) ==
    /\ Returned(e)
    /\ Contains(trace[e], "validate")
    /\ ~Validated(e)

\* an upstream call of the execution failed with this HTTP status
FailedWith(e, status) ==
    /\ raised[e].stage # Undefined
    /\ raised[e].failure.kind = "RequestError"
    /\ raised[e].failure.status = status

MissingCredentialError == McpError("InvalidParams", <<NoTokenText>>)

\* ------------------------------------------------------------------------
\* C1: token resolution follows strict precedence.  Whenever an
\* execution has resolved its token, the token is the explicit argument if
\* that is present, else the --token value if present, else the
\* GITHUB_TOKEN value if present; the missing-credential error arises
\* exactly when all three are absent, and then nothing is connected.
\* ------------------------------------------------------------------------
C1_TokenPrecedence ==
    \A e \in Execs :
        Validated(e) =>
            LET arg == input[e].token
                noArg == arg \in {Undefined, ""}
                noCli == cliToken \in {Undefined, ""}
                noEnv == envToken \in {Undefined, ""}
            IN  /\ ~noArg => token[e] = arg
                /\ (noArg /\ ~noCli) => token[e] = cliToken
                /\ (noArg /\ noCli /\ ~noEnv) => token[e] = envToken
                /\ (noArg /\ noCli /\ noEnv) <=>
                      (/\ error[e] = MissingCredentialError
                       /\ token[e] = Undefined
                       /\ calls[e] = <<>>)

\* the flag beats the environment when the argument is an empty string
C1_Witness ==
    \E e \in Execs :
        /\ pc[e] = "awaitAuth"
        /\ input[e].token = ""
        /\ cliToken = "ghp_cli"
        /\ envToken = "ghp_env"
        /\ token[e] = "ghp_cli"

\* ------------------------------------------------------------------------
\* C2 as stated: on every path, validation failure and missing
\* credential included, disconnect runs before the output is returned.
\* ------------------------------------------------------------------------
C2_DisconnectOnEveryPath ==
    \A e \in Execs :
        (Returned(e) /\ Contains(trace[e], "validate")) =>
            Before(trace[e], "disconnect", "return")

\* C2 amended: every path that reaches connect (success, failed
\* connect, failed operation call) runs disconnect before the output is
\* returned, and its calls are then over; a path that ends at validation
\* or at token resolution returns without connect and without disconnect.
C2_DisconnectAfterConnect ==
    \A e \in Execs :
        Returned(e) =>
            IF Contains(trace[e], "connect")
            THEN /\ Before(trace[e], "disconnect", "return")
                 /\ Count(trace[e], "disconnect") = 1
                 /\ calls[e] # <<>>
            ELSE /\ ~Contains(trace[e], "disconnect")
                 /\ calls[e] = <<>>

\* a failed operation call, disconnected before its error output
C2_Witness ==
    \E e \in Execs :
        /\ Returned(e)
        /\ raised[e].stage = "call"
        /\ IsErrorOf(out[e])
        /\ Before(trace[e], "disconnect", "return")

\* ------------------------------------------------------------------------
\* C3: every failure of an upstream interaction (identity check or
\* operation call) passes the classifier exactly once before the output is
\* built; status 404 gives the not-found text and status 401 the
\* invalid-or-expired text.
\* ------------------------------------------------------------------------
C3_ClassifiedExactlyOnce ==
    \A e \in Execs :
        (Returned(e) /\ raised[e].stage # Undefined) =>
            /\ classified[e] = 1
            /\ FailedWith(e, 404) => Contains(TextOf(out[e], 1), NotFoundText)
            /\ FailedWith(e, 401) =>
                  Contains(TextOf(out[e], 1), AuthenticationText)

\* ------------------------------------------------------------------------
\* C4: a step in which execute rejects its input (shape or predicate)
\* ends the execution at once with the error output; no token is resolved,
\* no connect, disconnect or upstream call is made, and the connection map
\* and the default client are what they were before the step, whatever
\* other executions have stored there.
\* ------------------------------------------------------------------------
C4_RejectingStep ==
    \A e \in Execs :
        (/\ pc[e] = "idle"
         /\ pc'[e] # "idle"
         /\ input'[e].tool \in DOMAIN enabledToolsMap
         /\ ~safeParse(input'[e])) =>
            /\ pc'[e] = "done"
            /\ IsErrorOf(out'[e])
            /\ token'[e] = Undefined
            /\ calls'[e] = <<>>
            /\ trace'[e] = <<"validate", "return">>
            /\ classified'[e] = 0
            /\ clients' = clients
            /\ defaultClient' = defaultClient

C4_ValidationLeavesGatewayAlone == [][C4_RejectingStep]_vars

\* a rejected request has returned while the client of another execution
\* is in the map
C4_Witness ==
    \E e, f \in Execs :
        /\ RejectedInput(e)
        /\ ~safeParse(input[e])
        /\ pc[f] = "awaitCall"
        /\ token[f] \in DOMAIN clients

\* ------------------------------------------------------------------------
\* C5: in an execution whose input is valid and whose token resolved,
\* the events come in the order validate, resolve, connect (identity
\* check), connected, operation call(s), disconnect, return.  No operation
\* call is issued before connect has succeeded and no output is returned
\* before disconnect has run.
\* ------------------------------------------------------------------------
EventRank(ev) ==
    CASE ev = "validate"   -> 1
      [] ev = "resolve"    -> 2
      [] ev = "connect"    -> 3
      [] ev = "connected"  -> 4
      [] ev = "call"       -> 5
      [] ev = "disconnect" -> 6
      [] ev = "return"     -> 7

C5_EventOrder ==
    \A e \in Execs :
        (Validated(e) /\ token[e] # Undefined) =>
            LET tr == trace[e]
            IN  /\ Len(tr) >= 3
                /\ SubSeq(tr, 1, 3) = <<"validate", "resolve", "connect">>
                /\ \A i, j \in 1..Len(tr) :
                      i < j => \/ EventRank(tr[i]) < EventRank(tr[j])
                               \/ tr[i] = "call" /\ tr[j] = "call"
                /\ Contains(tr, "call") => Contains(tr, "connected")
                /\ Contains(tr, "return") => Contains(tr, "disconnect")
                /\ Len(calls[e]) = 1 + Count(tr, "call")
                /\ calls[e][1].api = "users.getAuthenticated"
                /\ Returned(e) <=> Contains(tr, "return")

\* the complete successful run of a one-call operation
C5_Witness ==
    \E e \in Execs :
        /\ Returned(e)
        /\ trace[e] = <<"validate", "resolve", "connect", "connected",
                        "call", "disconnect", "return">>
        /\ ~IsErrorOf(out[e])

\* ------------------------------------------------------------------------
\* C6: an execution that failed anywhere (shape, predicate, missing
\* credential, connect, operation call) returns an output with isError
\* true and exactly one text segment; every started execution reaches an
\* output.  The text starts with "Invalid input:" for validation failures
\* and with "Error:" for all other failures.
\* ------------------------------------------------------------------------
C6_FailureEnvelope ==
    \A e \in Execs :
        (Returned(e) /\ Contains(trace[e], "validate")) =>
            LET invalid == ~safeParse(input[e])
                noToken == /\ input[e].token \in {Undefined, ""}
                           /\ cliToken \in {Undefined, ""}
                           /\ envToken \in {Undefined, ""}
                failed == \/ noToken
                          \/ raised[e].stage # Undefined
                          \/ error[e] # NoError
            IN  /\ Len(out[e].content) >= 1
                /\ \A i \in 1..Len(out[e].content) :
                      out[e].content[i].type = "text"
                /\ invalid =>
                      /\ IsErrorOf(out[e])
                      /\ Len(out[e].content) = 1
                      /\ Head(TextOf(out[e], 1)) = "Invalid input: "
                /\ (~invalid /\ failed) =>
                      /\ IsErrorOf(out[e])
                      /\ Len(out[e].content) = 1
                      /\ Head(TextOf(out[e], 1)) = "Error: "

\* a failed identity check reported with the generic prefix
C6_Witness ==
    \E e \in Execs :
        /\ Returned(e)
        /\ raised[e].stage = "connect"
        /\ IsErrorOf(out[e])
        /\ Head(TextOf(out[e], 1)) = "Error: "

\* ------------------------------------------------------------------------
\* C7: for every operation of every gh_manage_* command, a valid
\* request whose upstream calls all succeed returns an output without the
\* error flag and with exactly two text segments: a status line that names
\* the requested operation in "<operation> operation completed
\* successfully", then the JSON serialisation of the result payload (the
\* data of the last upstream response, or the operation's acknowledgement).
\* ------------------------------------------------------------------------
C7_SuccessEnvelope ==
    \A e \in Execs :
        (/\ Returned(e)
         /\ input[e].tool \in ManageTools
         /\ Validated(e)
         /\ error[e] = NoError
         /\ raised[e].stage = Undefined) =>
            LET line == TextOf(out[e], 1)
                plan == Dispatch(input[e])
                payload == result[e].result
            IN  /\ ~IsErrorOf(out[e])
                /\ Len(out[e].content) = 2
                /\ \E i \in 1..(Len(line) - 1) :
                      /\ line[i] = input[e].operation
                      /\ line[i + 1] = " operation completed successfully"
                /\ TextOf(out[e], 2) = <<[json |-> payload]>>
                /\ \/ payload = UpstreamResponse(plan[Len(plan)]).data
                   \/ DOMAIN payload \cap {"message", "deleted"} # {}

\* the repository create of the tests
C7_Witness ==
    \E e \in Execs :
        /\ Returned(e)
        /\ input[e].tool = "gh_manage_repos"
        /\ input[e].operation = "create"
        /\ ~IsErrorOf(out[e])
        /\ Len(out[e].content) = 2

\* ------------------------------------------------------------------------
\* C8: the classifier answers every failure of the identity check
\* with an McpError, by status: 401 authentication text, 403 authorization
\* text, 404 not-found text, 422 invalid-request text with the upstream
\* message, any other status or no status InternalError carrying the raw
\* message (when there is one).
\* ------------------------------------------------------------------------
C8_ClassifierTable ==
    \A e \in Execs :
        raised[e].stage = "connect" =>
            LET f == raised[e].failure
                err == error[e]
                other == /\ f.kind = "RequestError"
                         /\ f.status \notin {401, 403, 404, 422}
            IN  /\ err.code \in {"InvalidParams", "InternalError"}
                /\ Len(err.message) > 3
                /\ FailedWith(e, 401) =>
                      /\ err.code = "InvalidParams"
                      /\ Contains(err.message, AuthenticationText)
                /\ FailedWith(e, 403) =>
                      /\ err.code = "InvalidParams"
                      /\ Contains(err.message, AuthorizationText)
                /\ FailedWith(e, 404) =>
                      /\ err.code = "InvalidParams"
                      /\ Contains(err.message, NotFoundText)
                /\ FailedWith(e, 422) =>
                      /\ err.code = "InvalidParams"
                      /\ Contains(err.message, InvalidRequestText)
                      /\ f.message # "" => Contains(err.message, f.message)
                /\ other =>
                      /\ err.code = "InternalError"
                      /\ f.message # "" => Contains(err.message, f.message)
                /\ f.kind = "Error" =>
                      /\ err.code = "InternalError"
                      /\ Contains(err.message, f.message)
                /\ f.kind = "value" => err.code = "InternalError"

\* a 422 whose upstream message is carried along
C8_Witness ==
    \E e \in Execs :
        /\ FailedWith(e, 422)
        /\ raised[e].stage = "connect"
        /\ raised[e].failure.message = "upstream message"
        /\ Contains(error[e].message, InvalidRequestText)
        /\ Contains(error[e].message, "upstream message")

\* ------------------------------------------------------------------------
\* C9: repository command.  A request that supplies exactly the
\* required fields of its operation and nothing else passes validation; a
\* request that omits a required field is rejected.  Required: create
\* {name}; get, update, delete, fork {owner, repo}; transfer {owner, repo,
\* new_owner}; list none.
\* ------------------------------------------------------------------------
C9_RepoRequired(op) ==
    CASE op = "create" -> {"name"}
      [] op \in {"get", "update", "delete", "fork"} -> {"owner", "repo"}
      [] op = "transfer" -> {"owner", "repo", "new_owner"}
      [] op = "list" -> {}

C9_RepoPredicate ==
    \A e \in Execs :
        (/\ pc[e] # "idle"
         /\ input[e].tool = "gh_manage_repos"
         /\ input[e].operation \in
               {"create", "get", "update", "delete", "fork", "transfer",
                "list"}) =>
            LET req == C9_RepoRequired(input[e].operation)
                fl == input[e].flds
            IN  /\ (\A f \in DOMAIN fl :
                       fl[f] = IF f \in req THEN "truthy" ELSE Undefined)
                      => Validated(e)
                /\ (\E f \in req : fl[f] = Undefined) =>
                      /\ RejectedInput(e)
                      /\ Head(TextOf(out[e], 1)) = "Invalid input: "

\* transfer without new_owner is rejected
C9_Witness ==
    \E e \in Execs :
        /\ RejectedInput(e)
        /\ input[e].tool = "gh_manage_repos"
        /\ input[e].operation = "transfer"
        /\ input[e].flds.owner = "truthy"
        /\ input[e].flds.repo = "truthy"
        /\ input[e].flds.new_owner = Undefined

\* ------------------------------------------------------------------------
\* C10: issue command.  A well-typed request passes validation
\* exactly when the required fields of its operation carry a value:
\* create {owner, repo, title}; get, update, close, assign, label {owner,
\* repo, issue_number}; comment {owner, repo, issue_number, comment_body};
\* list {owner, repo}; search {q}.  A comment with owner, repo and
\* issue_number but no comment_body returns isError true with text
\* containing "Invalid input".
\* ------------------------------------------------------------------------
C10_IssueRequired(op) ==
    CASE op = "create" -> {"owner", "repo", "title"}
      [] op \in {"get", "update", "close", "assign", "label"} ->
            {"owner", "repo", "issue_number"}
      [] op = "comment" ->
            {"owner", "repo", "issue_number", "comment_body"}
      [] op = "list" -> {"owner", "repo"}
      [] op = "search" -> {"q"}

C10_IssuePredicate ==
    \A e \in Execs :
        (/\ pc[e] # "idle"
         /\ input[e].tool = "gh_manage_issues"
         /\ input[e].operation \in
               {"create", "get", "update", "close", "assign", "label",
                "comment", "list", "search"}) =>
            LET req == C10_IssueRequired(input[e].operation)
                fl == input[e].flds
            IN  /\ (/\ \A f \in req : fl[f] = "truthy"
                    /\ \A f \in DOMAIN fl : fl[f] # "illtyped")
                      => Validated(e)
                /\ (\E f \in req : fl[f] # "truthy") =>
                      /\ RejectedInput(e)
                      /\ IsErrorOf(out[e])
                      /\ Contains(TextOf(out[e], 1), "Invalid input: ")

\* the comment without comment_body
C10_Witness ==
    \E e \in Execs :
        /\ input[e].tool = "gh_manage_issues"
        /\ input[e].operation = "comment"
        /\ input[e].flds.owner = "truthy"
        /\ input[e].flds.repo = "truthy"
        /\ input[e].flds.issue_number = "truthy"
        /\ input[e].flds.comment_body = Undefined
        /\ Returned(e)
        /\ IsErrorOf(out[e])
        /\ Contains(TextOf(out[e], 1), "Invalid input: ")

\* ------------------------------------------------------------------------
\* Vocabulary of the predicate tables
\* ------------------------------------------------------------------------
\* every field of the set carries a value
Supplied(fl, fields) == \A f \in fields : fl[f] = "truthy"

\* no field of the request has a value of the wrong type
WellTyped(fl) == \A f \in DOMAIN fl : fl[f] # "illtyped"

\* the validation failure output
InvalidInputReturned(e) ==
    /\ RejectedInput(e)
    /\ IsErrorOf(out[e])
    /\ Len(out[e].content) = 1
    /\ Contains(TextOf(out[e], 1), "Invalid input: ")

\* ------------------------------------------------------------------------
\* C11: release command.  A well-typed request passes validation
\* exactly when its operation's requirement is met: create owner, repo,
\* tag_name; update, delete, publish owner, repo, release_id; get owner,
\* repo and at least one of release_id, tag_name; get_latest, list owner,
\* repo.
\* ------------------------------------------------------------------------
C11_ReleaseRequirement(op, fl) ==
    CASE op = "create" -> Supplied(fl, {"owner", "repo", "tag_name"})
      [] op \in {"update", "delete", "publish"} ->
            Supplied(fl, {"owner", "repo", "release_id"})
      [] op = "get" ->
            /\ Supplied(fl, {"owner", "repo"})
            /\ \/ Supplied(fl, {"release_id"})
               \/ Supplied(fl, {"tag_name"})
      [] op \in {"get_latest", "list"} -> Supplied(fl, {"owner", "repo"})

C11_ReleasePredicate ==
    \A e \in Execs :
        (/\ pc[e] # "idle"
         /\ input[e].tool = "gh_manage_releases"
         /\ input[e].operation \in
               {"create", "get", "update", "delete", "publish",
                "get_latest", "list"}) =>
            LET fl == input[e].flds
                met == C11_ReleaseRequirement(input[e].operation, fl)
            IN  /\ (met /\ WellTyped(fl)) => Validated(e)
                /\ ~met => InvalidInputReturned(e)

\* get by tag alone passes validation
C11_Witness ==
    \E e \in Execs :
        /\ Validated(e)
        /\ input[e].tool = "gh_manage_releases"
        /\ input[e].operation = "get"
        /\ input[e].flds.release_id = Undefined
        /\ input[e].flds.tag_name = "truthy"

\* ------------------------------------------------------------------------
\* C12: branch command.  A well-typed request passes validation
\* exactly when the required fields carry a value: create, get, delete,
\* get_protection owner, repo, branch; protect, update_protection owner,
\* repo, branch and the protection object; list owner, repo.  (A null
\* protection is not an object and counts as ill-typed.)  An operation
\* tag outside the enum is rejected whatever the fields are.
\* ------------------------------------------------------------------------
C12_BranchRequired(op) ==
    CASE op \in {"create", "get", "delete", "get_protection"} ->
            {"owner", "repo", "branch"}
      [] op \in {"protect", "update_protection"} ->
            {"owner", "repo", "branch", "protection"}
      [] op = "list" -> {"owner", "repo"}

C12_BranchPredicate ==
    \A e \in Execs :
        (pc[e] # "idle" /\ input[e].tool = "gh_manage_branches") =>
            LET fl == input[e].flds
                op == input[e].operation
            IN  IF op \in {"create", "get", "delete", "get_protection",
                           "protect", "update_protection", "list"}
                THEN /\ (/\ Supplied(fl, C12_BranchRequired(op))
                         /\ WellTyped(fl)
                         /\ fl.protection # "falsy") => Validated(e)
                     /\ ~Supplied(fl, C12_BranchRequired(op)) =>
                           InvalidInputReturned(e)
                ELSE InvalidInputReturned(e)

\* protect with owner, repo and branch but no protection object is rejected
C12_Witness ==
    \E e \in Execs :
        /\ InvalidInputReturned(e)
        /\ input[e].tool = "gh_manage_branches"
        /\ input[e].operation = "protect"
        /\ Supplied(input[e].flds, {"owner", "repo", "branch"})
        /\ input[e].flds.protection = Undefined

\* ------------------------------------------------------------------------
\* C13: actions command.  A well-typed request passes validation
\* exactly when its group's fields carry a value: list_workflows,
\* list_runs, list_artifacts, list_secrets owner, repo; get_workflow,
\* trigger_workflow also workflow_id; get_run, cancel_run, rerun_workflow
\* also run_id; get_artifact, download_artifact also artifact_id.  (A
\* null inputs mapping is not an object and counts as ill-typed.)  A
\* request that lacks a field of its group returns isError true with text
\* containing "Invalid input".
\* ------------------------------------------------------------------------
C13_ActionsRequired(op) ==
    CASE op \in {"list_workflows", "list_runs", "list_artifacts",
                 "list_secrets"} -> {"owner", "repo"}
      [] op \in {"get_workflow", "trigger_workflow"} ->
            {"owner", "repo", "workflow_id"}
      [] op \in {"get_run", "cancel_run", "rerun_workflow"} ->
            {"owner", "repo", "run_id"}
      [] op \in {"get_artifact", "download_artifact"} ->
            {"owner", "repo", "artifact_id"}

C13_ActionsPredicate ==
    \A e \in Execs :
        (/\ pc[e] # "idle"
         /\ input[e].tool = "gh_manage_actions"
         /\ input[e].operation \in
               {"list_workflows", "list_runs", "list_artifacts",
                "list_secrets", "get_workflow", "trigger_workflow",
                "get_run", "cancel_run", "rerun_workflow", "get_artifact",
                "download_artifact"}) =>
            LET fl == input[e].flds
                req == C13_ActionsRequired(input[e].operation)
            IN  /\ (/\ Supplied(fl, req)
                    /\ WellTyped(fl)
                    /\ fl.inputs # "falsy") => Validated(e)
                /\ ~Supplied(fl, req) => InvalidInputReturned(e)

\* cancel_run with owner and repo but no run_id is rejected
C13_Witness ==
    \E e \in Execs :
        /\ InvalidInputReturned(e)
        /\ input[e].tool = "gh_manage_actions"
        /\ input[e].operation = "cancel_run"
        /\ Supplied(input[e].flds, {"owner", "repo"})
        /\ input[e].flds.run_id = Undefined

\* ------------------------------------------------------------------------
\* C14: a call to a name without an enabled tool ends at once with
\* an error output and runs no tool's execute; the connection map and the
\* default client are what they were before the step.  For a registered
\* name the text says the tool is available but not enabled; for a name
\* that is not registered the text is another one.
\* ------------------------------------------------------------------------
C14_UnroutedStep ==
    \A e \in Execs :
        (/\ pc[e] = "idle"
         /\ pc'[e] # "idle"
         /\ input'[e].tool \notin Range(enabledTools)) =>
            LET name == input'[e].tool
                text == TextOf(out'[e], 1)
                notEnabled ==
                    "\" is available but not enabled by the current server configuration."
                registered ==
                    name \in {"gh_manage_repos", "gh_manage_issues",
                              "gh_manage_pulls", "gh_manage_branches",
                              "gh_manage_releases", "gh_manage_actions",
                              "gh_search"}
            IN  /\ pc'[e] = "done"
                /\ IsErrorOf(out'[e])
                /\ Len(out'[e].content) = 1
                /\ Head(text) = "Error: "
                /\ ~Contains(trace'[e], "validate")
                /\ token'[e] = Undefined
                /\ calls'[e] = <<>>
                /\ clients' = clients
                /\ defaultClient' = defaultClient
                /\ registered <=> Contains(text, notEnabled)
                /\ registered => Contains(text, name)

C14_DisabledIsNotUnknown == [][C14_UnroutedStep]_vars

\* a call to a registered but disabled tool has been answered while the
\* client of another execution is in the map
C14_Witness ==
    \E e, f \in Execs :
        /\ Returned(e)
        /\ input[e].tool = "gh_manage_issues"
        /\ "gh_manage_issues" \notin Range(enabledTools)
        /\ Contains(TextOf(out[e], 1), ToolNotEnabledText)
        /\ pc[f] = "awaitCall"
        /\ token[f] \in DOMAIN clients

\* ------------------------------------------------------------------------
\* C15: without a configuration file the enabled tools are all
\* registered tools; with a valid file they are exactly the registered
\* tools the file lists, each once, in registration order.  The name map
\* has exactly the enabled tools as entries, the tool listing has exactly
\* the enabled tools, and an execution runs a tool's execute only if the
\* tool is enabled.
\* ------------------------------------------------------------------------
C15_Registered ==
    <<"gh_manage_repos", "gh_manage_issues", "gh_manage_pulls",
      "gh_manage_branches", "gh_manage_releases", "gh_manage_actions",
      "gh_search">>

C15_Position(name) == CHOOSE k \in 1..Len(C15_Registered) :
                         C15_Registered[k] = name

C15_EnabledSet ==
    LET listed == IF toolsConfig.given /\ toolsConfig.content = "valid"
                  THEN Range(C15_Registered)
                         \cap Range(toolsConfig.enabledTools)
                  ELSE Range(C15_Registered)
        listing == ListTools(enabledTools)
    IN  /\ ~toolsConfig.given => enabledTools = C15_Registered
        /\ (toolsConfig.given /\ toolsConfig.content = "valid") =>
              /\ Range(enabledTools) = listed
              /\ \A i, j \in 1..Len(enabledTools) :
                    i < j => C15_Position(enabledTools[i])
                               < C15_Position(enabledTools[j])
        /\ DOMAIN enabledToolsMap = Range(enabledTools)
        /\ \A name \in DOMAIN enabledToolsMap : enabledToolsMap[name] = name
        /\ Len(listing) = Len(enabledTools)
        /\ {listing[i].name : i \in 1..Len(listing)} = Range(enabledTools)
        /\ \A e \in Execs :
              Contains(trace[e], "validate") => input[e].tool \in listed

\* the file lists two tools against registration order; one of them runs
C15_Witness ==
    \E e \in Execs :
        /\ toolsConfig.given
        /\ toolsConfig.enabledTools = <<"gh_search", "gh_manage_repos">>
        /\ enabledTools = <<"gh_manage_repos", "gh_search">>
        /\ input[e].tool = "gh_manage_repos"
        /\ pc[e] = "awaitCall"

\* ------------------------------------------------------------------------
\* C16: with one call at a time, once an execution that reached
\* connect has returned, the gateway holds nothing (empty map, no default
\* client); such an execution made exactly one identity check, with its
\* own token; and whenever no call is in flight the gateway is empty, so
\* no call finds a connection of an earlier one.
\* ------------------------------------------------------------------------
C16_NothingKeptBetweenCalls ==
    /\ \A e \in Execs :
          (Returned(e) /\ Contains(trace[e], "connect")) =>
              /\ clients = EmptyMap
              /\ defaultClient = NoClient
              /\ Cardinality({i \in 1..Len(calls[e]) :
                    calls[e][i].api = "users.getAuthenticated"}) = 1
              /\ \A i \in 1..Len(calls[e]) : calls[e][i].auth = token[e]
    /\ (\A e \in Execs : pc[e] = "idle") =>
          /\ clients = EmptyMap
          /\ defaultClient = NoClient

\* a successful call has returned and left nothing behind
C16_Witness ==
    \E e \in Execs :
        /\ Returned(e)
        /\ Contains(trace[e], "connected")
        /\ ~IsErrorOf(out[e])
        /\ Len(calls[e]) = 2
        /\ clients = EmptyMap
        /\ defaultClient = NoClient

\* ------------------------------------------------------------------------
\* C17: in every state of the gateway, for every token t,
\* getClient(t) answers the client of the latest successful connect of t
\* since the last disconnect if there is one; otherwise the client of the
\* latest successful connect of any token; and it throws the no-client
\* error exactly when nothing was connected since the last disconnect.
\* ------------------------------------------------------------------------
C17_Tokens == {Undefined, "", "ghp_arg", "ghp_cli", "ghp_env", "ghp_none"}

C17_GetClient ==
    \A t \in C17_Tokens :
        LET got == getClient(clients, defaultClient, t)
            mine == {i \in 1..Len(established) : established[i].token = t}
            last == CHOOSE i \in mine : \A j \in mine : j <= i
        IN  /\ got.threw <=> established = <<>>
            /\ got.threw =>
                  got.value.message =
                     <<"MCP error ", "InvalidParams", ": ",
                       "No GitHub client available. Please connect first.">>
            /\ mine # {} => got.value = established[last].client
            /\ (mine = {} /\ established # <<>>) =>
                  got.value = established[Len(established)].client

\* two tokens are connected; the first one is found although it is not
\* the default
C17_Witness ==
    /\ Len(established) = 2
    /\ established[1].token # established[2].token
    /\ defaultClient = established[2].client
    /\ getClient(clients, defaultClient, established[1].token).value
          = established[1].client

\* ------------------------------------------------------------------------
\* C18: connect stores nothing before the identity check has
\* answered.  When the check succeeds the client is stored under its token
\* and made the default; when it fails the classified error is raised and
\* the map and the default client are what they were before.
\* ------------------------------------------------------------------------
C18_ConnectStep ==
    \A e \in Execs :
        /\ (pc[e] = "idle" /\ pc'[e] = "awaitAuth") =>
              /\ clients' = clients
              /\ defaultClient' = defaultClient
        /\ (pc[e] = "awaitAuth" /\ pc'[e] # "awaitAuth") =>
              IF raised'[e].stage = "connect"
              THEN /\ clients' = clients
                   /\ defaultClient' = defaultClient
                   /\ error'[e].code \in {"InvalidParams", "InternalError"}
                   /\ Contains(error'[e].message,
                               "Failed to connect to GitHub API")
                   /\ classified'[e] = 1
              ELSE /\ error'[e] = NoError
                   /\ DOMAIN clients' = DOMAIN clients \cup {token[e]}
                   /\ clients'[token[e]].auth = token[e]
                   /\ defaultClient' = clients'[token[e]]
                   /\ \A t \in DOMAIN clients :
                         t # token[e] => clients'[t] = clients[t]

C18_ConnectAfterIdentityCheck == [][C18_ConnectStep]_vars

\* a failed identity check of one execution has left the client of the
\* other in place
C18_Witness ==
    \E e, f \in Execs :
        /\ pc[e] = "awaitConnect"
        /\ raised[e].stage = "connect"
        /\ pc[f] = "awaitCall"
        /\ token[f] \in DOMAIN clients
        /\ token[e] \notin DOMAIN clients

\* ------------------------------------------------------------------------
\* C19 as stated: no two executions are ever between their connect
\* and their disconnect together.
\* ------------------------------------------------------------------------
\* the execution has started connect and has not yet run disconnect
InConnection(e) ==
    /\ Contains(trace[e], "connect")
    /\ ~Contains(trace[e], "disconnect")

C19_NeverOverlap ==
    \A e, f \in Execs :
        e # f => ~(InConnection(e) /\ InConnection(f))

\* C19 amended: nothing serialises the calls, so executions can
\* overlap.  What holds with overlapping calls: the map and the default
\* client hold only clients whose execution is between its connect and
\* its disconnect, so the gateway is empty whenever no execution is in
\* that span, and while at most one execution is in that span the map has
\* at most its one entry.
C19_MapHoldsOnlyRunning ==
    LET running == {e \in Execs : InConnection(e)}
        between(e) == /\ e \in running
                      /\ pc[e] \in {"awaitConnect", "awaitCall"}
    IN  /\ \A t \in DOMAIN clients :
              /\ clients[t].auth = t
              /\ between(clients[t].by)
              /\ token[clients[t].by] = t
        /\ defaultClient # NoClient => between(defaultClient.by)
        /\ running = {} => (clients = EmptyMap /\ defaultClient = NoClient)
        /\ Cardinality(DOMAIN clients) <= Cardinality(running)

\* two executions with different tokens are connected together
C19_Witness ==
    /\ \A e \in Execs : pc[e] = "awaitCall" /\ InConnection(e)
    /\ Cardinality(DOMAIN clients) = 2

\* ------------------------------------------------------------------------
\* C20 as stated: every validated request that completes has issued,
\* besides the identity check, exactly one upstream call.
\* ------------------------------------------------------------------------
\* the execution passed validation and all its upstream calls succeeded
Completed(e) ==
    /\ Returned(e)
    /\ Validated(e)
    /\ error[e] = NoError
    /\ raised[e].stage = Undefined

C20_ExactlyOneCall ==
    \A e \in Execs : Completed(e) => Len(calls[e]) = 2

\* C20 amended: a validated request that completes has issued the
\* identity check and then exactly one upstream call, except the branch
\* create without sha, which issues three (repos.get, repos.getBranch,
\* git.createRef); an execution that fails has issued no more than that.
C20_CallsPerOperation ==
    \A e \in Execs :
        (pc[e] # "idle" /\ Validated(e) /\ token[e] # Undefined) =>
            LET resolvesHead == /\ input[e].tool = "gh_manage_branches"
                                /\ input[e].operation = "create"
                                /\ input[e].flds.sha # "truthy"
                expected == IF resolvesHead THEN 3 ELSE 1
                issued == Len(calls[e]) - 1
            IN  /\ calls[e][1].api = "users.getAuthenticated"
                /\ \A i \in 2..Len(calls[e]) :
                      calls[e][i].api # "users.getAuthenticated"
                /\ issued <= expected
                /\ Completed(e) => issued = expected
                /\ (Completed(e) /\ resolvesHead) =>
                      /\ calls[e][2].api = "repos.get"
                      /\ calls[e][3].api = "repos.getBranch"
                      /\ calls[e][4].api = "git.createRef"

\* a branch create without sha has completed with three calls
C20_Witness ==
    \E e \in Execs :
        /\ Completed(e)
        /\ input[e].tool = "gh_manage_branches"
        /\ input[e].operation = "create"
        /\ input[e].flds.sha = Undefined
        /\ Len(calls[e]) = 4
        /\ ~IsErrorOf(out[e])

\* ------------------------------------------------------------------------
\* C21: list is idempotent.  When a list call has returned, the gateway
\* holds no connection and no default and the router's tools are as
\* loaded; and when the same params are sent again and the upstream
\* answers the second call as it answered the first, the second execution
\* resolves the same token, sends the same upstream calls with the same
\* arguments and returns the same ToolOutput.
\* ------------------------------------------------------------------------
C21_ListIdempotent ==
    /\ (pc[1] = "done" /\ pc[2] = "idle") =>
          /\ clients = EmptyMap
          /\ defaultClient = NoClient
          /\ Loaded
    /\ (/\ pc[1] = "done"
        /\ pc[2] = "done"
        /\ input[2] = input[1]
        /\ raised[2] = raised[1]) =>
          /\ token[2] = token[1]
          /\ calls[2] = calls[1]
          /\ out[2] = out[1]

\* a repository list asking for a page was answered twice
C21_Witness ==
    /\ pc[1] = "done"
    /\ pc[2] = "done"
    /\ input[1].tool = "gh_manage_repos"
    /\ input[1].operation = "list"
    /\ input[1].flds.page = "truthy"
    /\ input[2] = input[1]
    /\ ~IsErrorOf(out[1])
    /\ ~IsErrorOf(out[2])
    /\ Len(calls[2]) = 2
    /\ calls[2][2].params.page = "truthy"

\* ------------------------------------------------------------------------
\* Vocabulary of the call arguments
\* ------------------------------------------------------------------------
\* the execution has issued its k-th operation call (after the identity
\* check of connect)
Issued(e, k) == Len(calls[e]) >= k + 1

\* the k-th operation call of the execution
OperationCall(e, k) == calls[e][k + 1]

Triggering(e) ==
    /\ input[e].tool = "gh_manage_actions"
    /\ input[e].operation = "trigger_workflow"
    /\ Issued(e, 1)

C23_SearchNeedsQuery ==
    \A e \in Execs :
        (pc[e] # "idle" /\ input[e].tool = "gh_search") =>
            LET q == input[e].flds.q
                op == input[e].operation
            IN  /\ (q = Undefined \/ op \notin SearchOperations) =>
                      /\ InvalidInputReturned(e)
                      /\ token[e] = Undefined
                      /\ calls[e] = <<>>
                      /\ ~Contains(trace[e], "connect")
                      /\ clients = EmptyMap
                      /\ defaultClient = NoClient
                /\ (q \in {"truthy", "falsy"} /\ op \in SearchOperations) =>
                      Validated(e)

\* a repositories search without q was rejected
C23_Witness ==
    \E e \in Execs :
        /\ input[e].tool = "gh_search"
        /\ input[e].operation = "repositories"
        /\ input[e].flds.q = Undefined
        /\ Returned(e)
        /\ IsErrorOf(out[e])
        /\ Contains(TextOf(out[e], 1), "Invalid input: ")

\* ------------------------------------------------------------------------
\* Vocabulary of the progression Received, Validated, CredentialResolved,
\* UpstreamCalled, Succeeded or Failed
\* ------------------------------------------------------------------------
\* the furthest state the execution has entered
Stage(e) ==
    CASE pc[e] = "idle" -> 0
      [] pc[e] = "done" -> 5
      [] Contains(trace[e], "call")    -> 4
      [] Contains(trace[e], "connect") -> 3
      [] Contains(trace[e], "resolve") -> 2
      [] OTHER -> 1

\* the execution has failed: an error is travelling to the catch of execute
Failing(e) == error[e] # NoError

\* no stage is entered twice and no upstream call is sent twice
C24_NoRetry ==
    \A e \in Execs :
        /\ \A ev \in {"validate", "resolve", "connect", "connected",
                      "disconnect", "return"} : Count(trace[e], ev) <= 1
        /\ \A i, j \in 1..Len(calls[e]) :
              calls[e][i].api = calls[e][j].api => i = j
        /\ \A i, j \in 1..Len(trace[e]) :
              i < j => EventRank(trace[e][i]) <= EventRank(trace[e][j])
        /\ Returned(e) =>
              /\ out[e] # NoOutput
              /\ IsErrorOf(out[e]) <=>
                    (Failing(e) \/ ~Contains(trace[e], "resolve"))

\* a step moves an execution forward only, and a failed execution sends
\* nothing more and enters no later stage but the final one
C24_Step ==
    \A e \in Execs :
        \/ pc[e] = "done" /\ pc'[e] = "idle"
        \/ /\ Stage(e) <= Stage(e)'
           /\ Failing(e) =>
                /\ calls'[e] = calls[e]
                /\ error'[e] = error[e]
                /\ Stage(e)' \in {Stage(e), 5}

\* ------------------------------------------------------------------------
\* C24: each execution is a linear progression without retry.  Stages
\* are entered in the order Received, Validated, CredentialResolved,
\* UpstreamCalled, Succeeded or Failed and never re-entered; a failure
\* leads to Failed without a later stage being run; neither connect nor an
\* upstream call is attempted twice; and, every upstream call returning or
\* failing, every started execution reaches Succeeded or Failed and returns
\* an output.
\* ------------------------------------------------------------------------
C24_LinearProgression ==
    /\ []C24_NoRetry
    /\ [][C24_Step]_vars
    /\ \A e \in Execs :
          (pc[e] # "idle") ~> (pc[e] = "done" /\ out[e] # NoOutput)

\* an execution whose connect failed has returned an error output without
\* an operation call
C24_Witness ==
    \E e \in Execs :
        /\ Returned(e)
        /\ raised[e].stage = "connect"
        /\ Len(calls[e]) = 1
        /\ ~Contains(trace[e], "call")
        /\ IsErrorOf(out[e])

\* ------------------------------------------------------------------------
\* Vocabulary of branch create
\* ------------------------------------------------------------------------
CreatingBranch(e) ==
    /\ input[e].tool = "gh_manage_branches"
    /\ input[e].operation = "create"
    /\ Contains(trace[e], "connected")

\* the apis of the operation calls issued so far
OperationApis(e) ==
    [k \in 1..(Len(calls[e]) - 1) |-> calls[e][k + 1].api]

IsPrefix(s, t) == Len(s) <= Len(t) /\ s = SubSeq(t, 1, Len(s))

\* the operation call that failed is the last one issued
FailedCall(e) == calls[e][Len(calls[e])]

\* ------------------------------------------------------------------------
\* C25: branch create.  Without a sha the operation calls are, in this
\* order, repos.get, repos.getBranch for the default branch the first
\* answer names, and git.createRef with the head sha of the second answer;
\* with a sha given the only operation call is git.createRef with that sha.
\* When one of the two lookups fails, git.createRef is never sent and the
\* execution returns an error output.  (A sha that is the empty string
\* counts as no sha.)
\* ------------------------------------------------------------------------
C25_BranchCreateSequence ==
    \A e \in Execs :
        CreatingBranch(e) =>
            LET fl == input[e].flds
                apis == OperationApis(e)
            IN  /\ fl.sha = "truthy" =>
                      /\ IsPrefix(apis, <<"git.createRef">>)
                      /\ Issued(e, 1) =>
                            OperationCall(e, 1).params.sha = fl.sha
                /\ fl.sha # "truthy" =>
                      /\ IsPrefix(apis, <<"repos.get", "repos.getBranch",
                                          "git.createRef">>)
                      /\ Issued(e, 2) =>
                            OperationCall(e, 2).params.branch =
                              UpstreamResponse("repos.get")
                                .data.default_branch
                      /\ Issued(e, 3) =>
                            OperationCall(e, 3).params.sha =
                              UpstreamResponse("repos.getBranch")
                                .data.commit.sha
                /\ \A k \in 1..Len(apis) :
                      apis[k] = "git.createRef" =>
                         OperationCall(e, k).params.ref =
                            <<"refs/heads/", fl.branch>>
                /\ (/\ raised[e].stage = "call"
                    /\ FailedCall(e).api \in {"repos.get", "repos.getBranch"})
                     =>
                      /\ ~Contains(apis, "git.createRef")
                      /\ Returned(e) => IsErrorOf(out[e])
                /\ (Returned(e) /\ ~IsErrorOf(out[e])) =>
                      apis[Len(apis)] = "git.createRef"

\* the lookup of the default branch head failed after the repository was
\* read, and the error output was returned
C25_Witness ==
    \E e \in Execs :
        /\ CreatingBranch(e)
        /\ input[e].flds.sha = Undefined
        /\ raised[e].stage = "call"
        /\ OperationApis(e) = <<"repos.get", "repos.getBranch">>
        /\ Returned(e)
        /\ IsErrorOf(out[e])

\* ------------------------------------------------------------------------
\* C26: executions with different tokens that interleave at their
\* awaits keep to their own connection.  An execution whose connect
\* succeeded does not fail with the no-client error, and every operation
\* call it issues is authenticated with its own token.
\* ------------------------------------------------------------------------
OtherTokenInFlight(e) ==
    \E f \in Execs \ {e} :
        /\ pc[f] # "idle"
        /\ token[f] # Undefined
        /\ token[f] # token[e]

C26_OwnConnection ==
    \A e \in Execs :
        (Contains(trace[e], "connected") /\ OtherTokenInFlight(e)) =>
            /\ error[e] # NoClientError
            /\ \A k \in 1..(Len(calls[e]) - 1) :
                  OperationCall(e, k).auth = token[e]

\* ------------------------------------------------------------------------
\* Vocabulary of the gateway steps
\* ------------------------------------------------------------------------
\* the step adds the event to the trace of the execution
Does(e, ev) ==
    /\ trace'[e] # trace[e]
    /\ Len(trace'[e]) > 0
    /\ trace'[e][Len(trace'[e])] = ev

\* the default client is set exactly when the map has an entry, and it is
\* the entry of the token that connected last
C27_DefaultIsLatest ==
    /\ defaultClient # NoClient <=> clients # EmptyMap
    /\ defaultClient # NoClient <=> established # <<>>
    /\ established # <<>> =>
          LET latest == established[Len(established)]
          IN  /\ latest.token \in DOMAIN clients
              /\ clients[latest.token] = defaultClient
              /\ defaultClient = latest.client
              /\ defaultClient.auth = latest.token

\* connect writes the entry of its own token only, disconnect empties the
\* map and resets the default in one step, and nothing else writes
C27_GatewayStep ==
    /\ \A e \in Execs :
          Does(e, "connected") =>
             /\ DOMAIN clients' = DOMAIN clients \cup {token[e]}
             /\ \A t \in DOMAIN clients \ {token[e]} :
                   clients'[t] = clients[t]
             /\ clients'[token[e]].auth = token[e]
             /\ defaultClient' = clients'[token[e]]
    /\ \A e \in Execs :
          Does(e, "disconnect") =>
             /\ clients' = EmptyMap
             /\ defaultClient' = NoClient
    /\ (\A e \in Execs :
          ~Does(e, "connected") /\ ~Does(e, "disconnect")) =>
             UNCHANGED gateway

\* ------------------------------------------------------------------------
\* C27: in every reachable state of the gateway the default client is
\* set if and only if the connection map is not empty, and then it is the
\* map entry of the token that connected successfully last; connect adds
\* or replaces the entry of its own token only, and disconnect removes
\* every entry and the default together.
\* ------------------------------------------------------------------------
C27_DefaultClientInvariant ==
    /\ []C27_DefaultIsLatest
    /\ [][C27_GatewayStep]_vars

\* two tokens are connected and the default is the one that came last
C27_Witness ==
    /\ Cardinality(DOMAIN clients) = 2
    /\ Len(established) = 2
    /\ defaultClient = clients[established[2].token]
    /\ defaultClient # clients[established[1].token]

\* ------------------------------------------------------------------------
\* Vocabulary of the operation sets
\* ------------------------------------------------------------------------
\* a request of the operation in which every field carries a value
FullRequest(tool, op) ==
    [tool |-> tool, operation |-> op, token |-> Undefined,
     flds |-> [f \in DOMAIN SchemaOf(tool) |-> "truthy"]]

\* the refine predicate has a case for the operation (its default case
\* returns false)
PredicateHasCase(tool, op) == Refine(FullRequest(tool, op))

\* the switch of the dispatcher has a case for the operation
DispatcherHasCase(tool, op) == Dispatch(FullRequest(tool, op)) # <<>>

\* ------------------------------------------------------------------------
\* C28: in every domain the operation enum, the operations the
\* predicate has a case for and the operations the dispatcher has a case
\* for are one set (gh_search has no predicate: there the enum and the
\* dispatcher agree): for the operation tag of every call, membership in
\* the three coincides.  A request whose operation tag is outside the enum
\* is answered "Invalid input" at validation, and an execution that passed
\* validation never takes the default branch "Unsupported operation".
\* ------------------------------------------------------------------------
C28_OperationSetsAgree ==
    \A e \in Execs :
        Contains(trace[e], "validate") =>
            LET tool == input[e].tool
                op == input[e].operation
                inEnum == op \in OperationsOf(tool)
            IN  /\ inEnum <=> DispatcherHasCase(tool, op)
                /\ tool \in ManageTools =>
                      (inEnum <=> PredicateHasCase(tool, op))
                /\ ~inEnum => InvalidInputReturned(e)
                /\ Validated(e) =>
                      /\ inEnum
                      /\ Dispatch(input[e]) # <<>>
                      /\ error[e] # UnsupportedOperation(input[e])

\* a repository request with a tag outside the enum and every field
\* absent was rejected
C28_Witness ==
    \E e \in Execs :
        /\ input[e].tool = "gh_manage_repos"
        /\ input[e].operation = InvalidOperation
        /\ \A f \in DOMAIN input[e].flds : input[e].flds[f] = Undefined
        /\ InvalidInputReturned(e)
        /\ calls[e] = <<>>

\* ------------------------------------------------------------------------
\* C29: a tools configuration that is given but cannot be used (the
\* file cannot be read, its text is not JSON, or it holds no enabledTools
\* array of strings) enables every registered tool, as no configuration
\* does, and calls to them are routed; in a valid file a name that matches
\* no registered tool enables nothing, so a file of such names only
\* enables no tool at all.
\* ------------------------------------------------------------------------
C29_ConfigFallback ==
    /\ (toolsConfig.given /\ toolsConfig.content # "valid") =>
          /\ enabledTools = availableToolsList
          /\ enabledTools = loadAndFilterTools(NoToolsConfig)
          /\ DOMAIN enabledToolsMap = allTools
          /\ \A e \in Execs :
                (pc[e] # "idle" /\ input[e].tool \in allTools) =>
                    Contains(trace[e], "validate")
    /\ (toolsConfig.given /\ toolsConfig.content = "valid") =>
          /\ Range(enabledTools) =
                Range(toolsConfig.enabledTools) \cap allTools
          /\ DOMAIN enabledToolsMap = Range(enabledTools)
          /\ Range(toolsConfig.enabledTools) \cap allTools = {} =>
                /\ enabledTools = <<>>
                /\ \A e \in Execs : ~Contains(trace[e], "validate")

\* the configuration file is not JSON and a repository list call was
\* routed and passed validation
C29_Witness ==
    \E e \in Execs :
        /\ toolsConfig.given
        /\ toolsConfig.content = "unparsable"
        /\ input[e].tool = "gh_manage_repos"
        /\ input[e].operation = "list"
        /\ Validated(e)

\* ------------------------------------------------------------------------
\* C30: release get sends exactly one lookup.  When release_id is
\* present the lookup is getRelease with that id, whether or not tag_name
\* is given too; when release_id is absent it is getReleaseByTag with
\* tag_name; and the identifier handed to the chosen lookup always carries
\* a value.  (Present is JavaScript truthiness: a release_id of 0 counts as
\* absent.)
\* ------------------------------------------------------------------------
C30_ReleaseGetLookup ==
    \A e \in Execs :
        (/\ input[e].tool = "gh_manage_releases"
         /\ input[e].operation = "get"
         /\ Validated(e)) =>
            LET fl == input[e].flds
            IN  /\ Len(calls[e]) <= 2
                /\ (Returned(e) /\ ~IsErrorOf(out[e])) => Issued(e, 1)
                /\ Issued(e, 1) =>
                      LET sent == OperationCall(e, 1)
                      IN  /\ fl.release_id = "truthy" =>
                                /\ sent.api = "repos.getRelease"
                                /\ DOMAIN sent.params =
                                      {"owner", "repo", "release_id"}
                                /\ sent.params.release_id = fl.release_id
                          /\ fl.release_id # "truthy" =>
                                /\ sent.api = "repos.getReleaseByTag"
                                /\ DOMAIN sent.params =
                                      {"owner", "repo", "tag"}
                                /\ sent.params.tag = fl.tag_name
                                /\ sent.params.tag = "truthy"

\* both identifiers were given and the release was looked up by its id
C30_Witness ==
    \E e \in Execs :
        /\ input[e].tool = "gh_manage_releases"
        /\ input[e].operation = "get"
        /\ input[e].flds.release_id = "truthy"
        /\ input[e].flds.tag_name = "truthy"
        /\ Issued(e, 1)
        /\ OperationCall(e, 1).api = "repos.getRelease"
        /\ Returned(e)
        /\ ~IsErrorOf(out[e])

====
